---------------------------- MODULE Spec2Model ----------------------------
(***************************************************************************)
(* Model of retroboard's ApplicationManager (manager.py), the process      *)
(* entry point (main.py) and the MatrixApplication life cycle (apps/       *)
(* base.py).                                                               *)
(*                                                                         *)
(* The run loop of ApplicationManager.run is one process whose position is *)
(* pc; the API threads are producers that only append to command_queue.    *)
(* Each handler (one dispatched command, the carousel evaluation, one      *)
(* call of the active application's loop(), the shutdown block, main())    *)
(* is one atomic action.  The handlers are written as operators on a       *)
(* record of the manager's fields, composed exactly as the methods of      *)
(* manager.py call one another.                                            *)
(*                                                                         *)
(* Two fields are history ("ghost") fields and are never read by a         *)
(* handler: log, the calls made by the last handler in order, and nlive,   *)
(* the number of application instances whose setup() has returned and      *)
(* whose cleanup() has not been called.                                    *)
(***************************************************************************)
EXTENDS Integers, Sequences, FiniteSets, TLC

VARIABLES
    pc,                 \* position of the main thread: boot, drain, carousel, advance, final, done
    running,            \* ApplicationManager.running
    current_app,        \* ApplicationManager.current_app (instance or NoApp)
    current_app_name,   \* ApplicationManager.current_app_name
    app_configs,        \* ApplicationManager.app_configs
    settings,           \* ApplicationManager.settings
    carousel_enabled,   \* ApplicationManager.carousel_enabled
    carousel_apps,      \* ApplicationManager.carousel_apps
    carousel_index,     \* ApplicationManager.carousel_index (0-based, as in the source)
    elapsed,            \* time.time() - last_carousel_time, saturated at MaxElapsed
    command_queue,      \* ApplicationManager.command_queue
    state_file,         \* the contents of state.json
    nlive,              \* history: instances set up and not yet cleaned up
    log,                \* history: calls made by the last handler
    sent,               \* number of commands the producers have enqueued so far
    taken,              \* history: enqueue number of the last command dispatched
    fifo,               \* history: progress of switch p1, config, switch p2 (0..3)
    after,              \* history: "stop", "crash", "exit_active" and what followed them
    response,           \* the last HTTP request served by the API and its status
    now,                \* history: time.time() since the last carousel command was handled
    brightness,         \* SimulatedDriver._brightness
    disk,               \* the condition of the file system that holds state.json
    wrote,              \* history: "failed" after a failed write, "recovered" after the next good one
    surface,            \* the buffers of the SimulatedDriver and of its frame canvases
    seen                \* history: commands enqueued before the current iteration of run() began

vars == <<pc, running, current_app, current_app_name, app_configs, settings,
          carousel_enabled, carousel_apps, carousel_index, elapsed,
          command_queue, state_file, nlive, log, sent, taken, fifo, after,
          response, now, brightness, disk, wrote, surface, seen>>

-----------------------------------------------------------------------------
(* Bounds of the model *)

\* total number of commands the producers enqueue in one behaviour
MaxCmds == 3

\* total number of commands enqueued by direct callers of queue_command
MaxDirect == 2

\* the time on the simulated clock after which loop() is no longer called
MaxTime == 11

\* total number of commands enqueued while switching back and forth
MaxMemory == 4

\* number of lists of rows (display and canvas buffers) created in one behaviour
MaxBuffers == 5

\* how far below 0 and above 100 the arguments of set_brightness go
MaxOver == 3

\* total number of commands enqueued at any point of the run loop's iterations
MaxTick == 2

\* total number of commands enqueued while the dispatch of each is awaited
MaxStarve == 2

\* number of commands the queue holds at once while producers never stop
MaxFlood == 2

\* total number of commands enqueued beside a configuration request
MaxUnit == 4

\* total number of commands enqueued while GET requests are served
MaxRead == 2

\* total number of commands enqueued while the file system and update_config
\* can fail
MaxFault == 2

-----------------------------------------------------------------------------
(* Values *)

None == "None"

\* names in available_apps (registered by main from discover_apps)
Registered == {"p1", "p2"}

\* a name that no application is registered under
Unknown == "zz"

EmptyMap == [x \in {} |-> 0]

\* dict[key] = value
Put(d, key, value) == [x \in (DOMAIN d) \cup {key} |-> IF x = key THEN value ELSE d[x]]

\* dict.update(other)
Update(d, other) ==
    [x \in (DOMAIN d) \cup (DOMAIN other) |-> IF x \in DOMAIN other THEN other[x] ELSE d[x]]

\* current_app = None
NoApp == [cls |-> None, config |-> EmptyMap]

\* no state.json on disk
NoFile ==
    [exists |-> FALSE, form |-> "snapshot", last_app |-> None, app_configs |-> EmptyMap,
     settings |-> EmptyMap, carousel |-> [enabled |-> FALSE, apps |-> <<>>, index |-> 0]]

\* state.json after open(state_file, "w") has truncated it and json.dump has not
\* finished: a proper prefix of the text of a snapshot, which json.load refuses
Truncated == [NoFile EXCEPT !.exists = TRUE, !.form = "truncated"]

\* no request has been served
NoResponse == [status |-> 0]

\* the carousel playlist the producers send (api.update_carousel lets through
\* only entries that name a registered application and have a positive duration)
Playlist == <<[app |-> "p1", duration |-> 1], [app |-> "p2", duration |-> 2]>>

\* the commands the API threads enqueue (api.py builds them from the requests)
Commands ==
    { [action |-> "switch", app |-> "p1", config |-> EmptyMap],
      [action |-> "switch", app |-> "p2", config |-> [k \in {"color"} |-> 1]],
      [action |-> "switch", app |-> Unknown, config |-> EmptyMap],
      [action |-> "stop"],
      [action |-> "quit"],
      [action |-> "config", key |-> "color", value |-> 2],
      [action |-> "update_app_config", app |-> "p1", config |-> [k \in {"speed"} |-> 1]],
      [action |-> "settings", brightness |-> 50] }
    \cup { [action |-> "carousel", enabled |-> TRUE, apps |-> Playlist],
           [action |-> "carousel", enabled |-> FALSE, apps |-> <<>>] }

\* commands handed to queue_command by its caller without passing through
\* api.py: nothing in the manager checks the fields of a command
DirectCommands ==
    { [action |-> "switch", app |-> "p1", config |-> EmptyMap],
      [action |-> "switch", app |-> "p2", config |-> [k \in {"color"} |-> 1]],
      [action |-> "stop"],
      [action |-> "quit"],
      [action |-> "config", key |-> "color", value |-> 2],
      [action |-> "update_app_config", app |-> "p1", config |-> [k \in {"speed"} |-> 1]],
      [action |-> "update_app_config", app |-> "p2", config |-> [k \in {"color"} |-> 3]],
      [action |-> "update_app_config", app |-> Unknown, config |-> [k \in {"speed"} |-> 1]],
      [action |-> "settings", brightness |-> 150],
      [action |-> "settings", brightness |-> 0 - 5] }
    \cup { [action |-> "carousel", enabled |-> TRUE, apps |-> <<>>],
           [action |-> "carousel", enabled |-> TRUE, apps |-> Playlist],
           [action |-> "carousel", enabled |-> TRUE,
            apps |-> <<[app |-> "p2", duration |-> 1]>>] }

\* the commands sent while writes of state.json and update_config can fail;
\* "fps" = 0 makes update_config of the active application raise
FaultCommands ==
    { [action |-> "switch", app |-> "p2", config |-> [k \in {"color"} |-> 1]],
      [action |-> "stop"],
      [action |-> "config", key |-> "color", value |-> 2],
      [action |-> "config", key |-> "fps", value |-> 0],
      [action |-> "update_app_config", app |-> "p1", config |-> [k \in {"speed"} |-> 1]],
      [action |-> "update_app_config", app |-> "p1", config |-> [k \in {"fps"} |-> 0]],
      [action |-> "settings", brightness |-> 50] }
    \cup { [action |-> "carousel", enabled |-> TRUE, apps |-> Playlist] }

\* a state.json as left by an editor or by a damaged disk: a JSON object whose
\* "settings" member is not a mapping with a usable brightness
EditedFile ==
    [exists |-> TRUE, form |-> "bad_settings", last_app |-> "p2",
     app_configs |-> [a \in {"p2"} |-> [k \in {"color"} |-> 1]],
     settings |-> EmptyMap,
     carousel |-> [enabled |-> TRUE, apps |-> Playlist, index |-> 1]]

\* the commands sent while the order of the steps of an iteration is followed
TickCommands ==
    { [action |-> "switch", app |-> "p2", config |-> [k \in {"color"} |-> 1]],
      [action |-> "stop"],
      [action |-> "quit"],
      [action |-> "config", key |-> "color", value |-> 2] }
    \cup { [action |-> "carousel", enabled |-> TRUE, apps |-> Playlist] }

\* the commands sent while the dispatch of each command is awaited
StarveCommands ==
    { [action |-> "switch", app |-> "p2", config |-> [k \in {"color"} |-> 1]],
      [action |-> "stop"],
      [action |-> "quit"] }

\* the commands sent by producers that never stop
FloodCommands ==
    { [action |-> "switch", app |-> "p2", config |-> [k \in {"color"} |-> 1]],
      [action |-> "config", key |-> "color", value |-> 2],
      [action |-> "settings", brightness |-> 50] }

\* the commands sent while GET requests are served
ReadCommands ==
    { [action |-> "switch", app |-> "p2", config |-> [k \in {"color"} |-> 1]],
      [action |-> "stop"],
      [action |-> "settings", brightness |-> 50] }
    \cup { [action |-> "carousel", enabled |-> TRUE, apps |-> Playlist] }

\* the commands of test_per_app_memory: a switch request without "config" is
\* enqueued with config {} (api.py:58)
MemoryCommands ==
    { [action |-> "switch", app |-> "p1", config |-> EmptyMap],
      [action |-> "switch", app |-> "p2", config |-> [k \in {"color"} |-> 1]],
      [action |-> "config", key |-> "color", value |-> 2] }

\* the values of a snapshot that is saved and loaded again: every last program,
\* some per-program configs, the settings the manager can hold, and every
\* carousel over a few playlists with an index inside the playlist
SnapshotNames == Registered \cup {None}

SnapshotConfigs ==
    { EmptyMap,
      [a \in {"p1"} |-> EmptyMap],
      [a \in {"p2"} |-> [k \in {"color"} |-> 1]],
      [a \in {"p1", "p2"} |-> IF a = "p1" THEN [k \in {"speed"} |-> 1]
                                           ELSE [k \in {"color", "fps"} |-> 0]] }

SnapshotSettings == {EmptyMap} \cup {[brightness |-> b] : b \in {0, 50, 100}}

SnapshotPlaylists == {<<>>, Playlist, <<[app |-> "p2", duration |-> 1]>>}

\* the commands sent while the end of the run loop is followed
LiveCommands ==
    { [action |-> "quit"],
      [action |-> "stop"],
      [action |-> "switch", app |-> "p2", config |-> [k \in {"color"} |-> 1]],
      [action |-> "config", key |-> "color", value |-> 2] }

\* the playlist of the timing example: p1 for 2 time units, p2 for 3
TimedPlaylist == <<[app |-> "p1", duration |-> 2], [app |-> "p2", duration |-> 3]>>

\* the carousel commands sent while run-loop iterations are timed
TimedCommands ==
    { [action |-> "carousel", enabled |-> TRUE, apps |-> TimedPlaylist],
      [action |-> "carousel", enabled |-> TRUE, apps |-> Playlist],
      [action |-> "carousel", enabled |-> FALSE, apps |-> <<>>] }

RECURSIVE MaxDuration(_)
MaxDuration(apps) ==
    IF apps = <<>> THEN 0
    ELSE LET rest == MaxDuration(Tail(apps))
         IN IF Head(apps).duration > rest THEN Head(apps).duration ELSE rest

\* elapsed time is only compared with the duration of a playlist entry
\* (manager.py:293), so it is kept up to the largest duration in use
MaxElapsed == MaxDuration(Playlist)

-----------------------------------------------------------------------------
(* The manager's fields as one record, so that the methods compose *)

Self ==
    [running |-> running, current_app |-> current_app,
     current_app_name |-> current_app_name, app_configs |-> app_configs,
     settings |-> settings, carousel_enabled |-> carousel_enabled,
     carousel_apps |-> carousel_apps, carousel_index |-> carousel_index,
     elapsed |-> elapsed, state_file |-> state_file, nlive |-> nlive, log |-> log,
     brightness |-> brightness, write |-> disk, wrote |-> wrote,
     surface |-> surface, seen |-> seen]

Commit(m) ==
    /\ running' = m.running
    /\ current_app' = m.current_app
    /\ current_app_name' = m.current_app_name
    /\ app_configs' = m.app_configs
    /\ settings' = m.settings
    /\ carousel_enabled' = m.carousel_enabled
    /\ carousel_apps' = m.carousel_apps
    /\ carousel_index' = m.carousel_index
    /\ elapsed' = m.elapsed
    /\ state_file' = m.state_file
    /\ nlive' = m.nlive
    /\ log' = m.log
    /\ brightness' = m.brightness
    /\ disk' = m.write
    /\ wrote' = m.wrote
    /\ surface' = m.surface
    /\ seen' = m.seen

\* a handler begins: the history of calls starts again with the handler's name
Begin(m, what) == [m EXCEPT !.log = <<what>>]

Call(m, what, who) == [m EXCEPT !.log = Append(@, <<what, who>>)]

\* SimulatedDriver.__init__
DefaultBrightness == 100

\* the pixels of the matrix (x, on one row) and the colours drawn
Pixels == 1..2

Colours == 0..1

\* [[(0, 0, 0) for _ in range(width)] for _ in range(height)]
Black == [x \in Pixels |-> 0]

\* SimulatedDriver.__init__: heap holds the contents of every list of rows that
\* has been created, buffer is the one self._buffer refers to, and canvases are
\* the ones the _buffer of each frame canvas refers to, in order of creation
NewSurface == [heap |-> <<Black>>, buffer |-> 1, canvases |-> <<>>]

\* SimulatedDriver.create_frame_canvas: a new canvas with a new black buffer
create_frame_canvas(s) ==
    [s EXCEPT !.heap = Append(@, Black), !.canvases = Append(@, Len(s.heap) + 1)]

\* SimulatedFrameCanvasWrapper.set_pixel on canvas c: writes into the list the
\* canvas refers to, when x is inside the matrix
canvas_set_pixel(s, c, x, colour) ==
    IF x \in Pixels THEN [s EXCEPT !.heap[s.canvases[c]][x] = colour] ELSE s

\* SimulatedFrameCanvasWrapper.fill on canvas c: the canvas gets a new list
canvas_fill(s, c, colour) ==
    [s EXCEPT !.heap = Append(@, [x \in Pixels |-> colour]),
              !.canvases[c] = Len(s.heap) + 1]

\* SimulatedFrameCanvasWrapper.clear on canvas c
canvas_clear(s, c) == canvas_fill(s, c, 0)

\* an update that makes the display refer to the canvas's own list
update_shares_buffer(s, c) ==
    [s EXCEPT !.heap = Append(@, s.heap[s.buffer]),
              !.canvases = Append(@, Len(s.heap) + 1),
              !.buffer = s.canvases[c]]

\* SimulatedDriver.update(canvas c): old_canvas is a new canvas whose buffer is
\* a copy of the display's, the display gets a copy of the canvas's, and
\* old_canvas (the last of canvases) is returned
update(s, c) ==
    [s EXCEPT !.heap = @ \o <<s.heap[s.buffer], s.heap[s.canvases[c]]>>,
              !.canvases = Append(@, Len(s.heap) + 1),
              !.buffer = Len(s.heap) + 2]

\* SimulatedDriver.get_buffer
get_buffer(s) == s.heap[s.buffer]

\* SimulatedFrameCanvasWrapper.get_buffer of canvas c
canvas_get_buffer(s, c) == s.heap[s.canvases[c]]

\* set_brightness without the cap
set_brightness_uncapped(b) == IF b > 0 THEN b ELSE 0

\* SimulatedDriver.get_brightness: the value returned when stored is kept
get_brightness(stored) == stored

\* SimulatedDriver.set_brightness: the value stored for the argument b
set_brightness(b) ==
    LET capped == IF b < 100 THEN b ELSE 100
    IN IF capped > 0 THEN capped ELSE 0

\* create_driver and ApplicationManager.__init__ in a process that finds the
\* file system in condition fs, holding file
NewManager(file, fs) ==
    [running |-> FALSE, current_app |-> NoApp, current_app_name |-> None,
     app_configs |-> EmptyMap, settings |-> EmptyMap, carousel_enabled |-> FALSE,
     carousel_apps |-> <<>>, carousel_index |-> 0, elapsed |-> 0,
     state_file |-> file, nlive |-> 0, log |-> <<>>,
     brightness |-> DefaultBrightness, write |-> fs, wrote |-> "",
     surface |-> NewSurface, seen |-> 0]

\* ApplicationManager.get_app_config
get_app_config(m, app_name) ==
    IF app_name \in DOMAIN m.app_configs THEN m.app_configs[app_name] ELSE EmptyMap

\* the snapshot save_state serialises
Snapshot(m) ==
    [exists |-> TRUE, form |-> "snapshot", last_app |-> m.current_app_name,
     app_configs |-> m.app_configs, settings |-> m.settings,
     carousel |-> [enabled |-> m.carousel_enabled, apps |-> m.carousel_apps,
                   index |-> m.carousel_index]]

\* a save_state that ends the run loop when the write fails
save_state_gives_up(m) ==
    CASE m.write = "ok" ->
           Call([m EXCEPT !.state_file = Snapshot(m),
                          !.wrote = IF @ = "failed" THEN "recovered" ELSE ""],
                "save_state", m.current_app_name)
      [] m.write = "readonly" ->
           Call([m EXCEPT !.wrote = "failed", !.running = FALSE],
                "save_state_fails", m.current_app_name)
      [] m.write = "full" ->
           Call([m EXCEPT !.state_file = Truncated, !.wrote = "failed", !.running = FALSE],
                "save_state_fails", m.current_app_name)
      [] m.write = "killed" ->
           Call([m EXCEPT !.state_file = Truncated], "killed", m.current_app_name)

\* ApplicationManager.save_state.  m.write is what the file system does with
\* the write: "ok"; "readonly", open() raises and the file is left as it was;
\* "full", open() has truncated the file and json.dump raises; "killed", the
\* process is killed after open() and before json.dump has finished
save_state(m) ==
    CASE m.write = "ok" ->
           Call([m EXCEPT !.state_file = Snapshot(m),
                          !.wrote = IF @ = "failed" THEN "recovered" ELSE ""],
                "save_state", m.current_app_name)
      [] m.write = "readonly" ->
           Call([m EXCEPT !.wrote = "failed"], "save_state_fails", m.current_app_name)
      [] m.write = "full" ->
           Call([m EXCEPT !.state_file = Truncated, !.wrote = "failed"],
                "save_state_fails", m.current_app_name)
      [] m.write = "killed" ->
           Call([m EXCEPT !.state_file = Truncated], "killed", m.current_app_name)

\* ApplicationManager.stop_current_app
stop_current_app(m, save) ==
    IF m.current_app = NoApp THEN m
    ELSE LET m1 == [m EXCEPT !.app_configs =
                        IF m.current_app_name # None
                        THEN Put(@, m.current_app_name, m.current_app.config)
                        ELSE @]
             m2 == Call(m1, "stop", m.current_app.cls)
             m3 == [Call(m2, "cleanup", m.current_app.cls) EXCEPT !.nlive = @ - 1]
         IN IF save
            THEN save_state([m3 EXCEPT !.current_app = NoApp, !.current_app_name = None])
            ELSE [m3 EXCEPT !.current_app = NoApp]

\* start_app that forgets to stop the application that is running
start_app_keeps_old(m, name, config, ok) ==
    IF name \notin Registered THEN m
    ELSE IF ok
         THEN [Call(m, "setup", name) EXCEPT
                  !.current_app = [cls |-> name, config |-> config],
                  !.current_app_name = name,
                  !.nlive = @ + 1]
         ELSE [Call(m, "setup_raises", name) EXCEPT
                  !.current_app = NoApp,
                  !.current_app_name = None]

\* start_app that stops the running application before it looks the name up
start_app_stops_first(m, name, config, ok) ==
    LET m1 == IF m.current_app # NoApp THEN stop_current_app(m, FALSE) ELSE m
    IN IF name \notin Registered THEN m1
       ELSE IF ok
            THEN [Call(m1, "setup", name) EXCEPT
                     !.current_app = [cls |-> name, config |-> config],
                     !.current_app_name = name,
                     !.nlive = @ + 1]
            ELSE [Call(m1, "setup_raises", name) EXCEPT
                     !.current_app = NoApp,
                     !.current_app_name = None]

\* the return value of start_app
started(name, ok) == name \in Registered /\ ok

\* ApplicationManager.start_app; ok: the constructor and setup() do not raise
start_app(m, name, config, ok) ==
    IF name \notin Registered THEN m
    ELSE LET m1 == IF m.current_app # NoApp THEN stop_current_app(m, FALSE) ELSE m
         IN IF ok
            THEN [Call(m1, "setup", name) EXCEPT
                     !.current_app = [cls |-> name, config |-> config],
                     !.current_app_name = name,
                     !.nlive = @ + 1]
            ELSE [Call(m1, "setup_raises", name) EXCEPT
                     !.current_app = NoApp,
                     !.current_app_name = None]

\* switch_app that saves the state whether or not the start succeeded
switch_app_always_saves(m, name, config, ok) ==
    LET m1 == start_app(m, name, config, ok)
    IN save_state([m1 EXCEPT !.app_configs =
                      IF m1.current_app_name # None /\ m1.current_app # NoApp
                      THEN Put(@, m1.current_app_name, m1.current_app.config)
                      ELSE @])

\* switch_app that saves the state without copying the new instance's
\* configuration into app_configs
switch_app_no_refresh(m, name, config, ok) ==
    LET m1 == start_app(m, name, config, ok)
    IN IF started(name, ok) THEN save_state(m1) ELSE m1

\* ApplicationManager.switch_app
switch_app(m, name, config, ok) ==
    LET m1 == start_app(m, name, config, ok)
    IN IF started(name, ok)
       THEN save_state([m1 EXCEPT !.app_configs =
                           IF m1.current_app_name # None
                           THEN Put(@, m1.current_app_name, m1.current_app.config)
                           ELSE @])
       ELSE m1


-----------------------------------------------------------------------------
(* ApplicationManager.process_commands: the branch taken for one command *)

\* action == "switch"
do_switch(m, command, ok) == switch_app(m, command.app, command.config, ok)

\* action == "stop"
do_stop(m) == stop_current_app(m, TRUE)

\* update_config of the bundled applications raises after the base class has
\* stored the value: scroll_text and stars compute 1.0 / value for "fps"
raises(key, value) == key = "fps" /\ value = 0

\* the keys of config whose update_config raises
raising(config) == {key \in DOMAIN config : raises(key, config[key])}

\* MatrixApplication.update_config on the active instance: self.config[key] = value
update_config(m, key, value) ==
    [m EXCEPT !.current_app.config = Put(@, key, value)]

\* a config handler that updates the instance and saves, but does not copy the
\* instance's configuration into app_configs
do_config_no_refresh(m, command) ==
    IF m.current_app = NoApp THEN m
    ELSE save_state(update_config(m, command.key, command.value))

\* action == "config"
do_config(m, command) ==
    IF m.current_app = NoApp THEN m
    ELSE LET m1 == update_config(m, command.key, command.value)
             m2 == [m1 EXCEPT !.app_configs =
                       IF m1.current_app_name # None
                       THEN Put(@, m1.current_app_name, m1.current_app.config)
                       ELSE @]
         IN IF raises(command.key, command.value)
            THEN Call(m1, "update_config_raises", m.current_app.cls)
            ELSE save_state(m2)

\* update_app_config that, for the active application, stores the instance's
\* configuration as read before the new keys are applied to the instance
do_update_app_config_stale(m, command) ==
    IF command.app \notin Registered THEN m
    ELSE IF command.app = m.current_app_name /\ m.current_app # NoApp
         THEN save_state([m EXCEPT
                  !.app_configs = Put(@, command.app, m.current_app.config),
                  !.current_app.config = Update(@, command.config)])
         ELSE save_state([m EXCEPT !.app_configs =
                  Put(@, command.app,
                      Update(get_app_config(m, command.app), command.config))])

\* update_app_config that stores the new mapping in place of the old one
do_update_app_config_replaces(m, command) ==
    IF command.app \notin Registered THEN m
    ELSE LET m1 == [m EXCEPT !.app_configs = Put(@, command.app, command.config)]
             m2 == IF command.app = m1.current_app_name /\ m1.current_app # NoApp
                   THEN [m1 EXCEPT !.current_app.config = Update(@, command.config)]
                   ELSE m1
         IN save_state(m2)

\* action == "update_app_config"
\* (when update_config raises for a key, the loop over config.items() ends
\* there: the raising key is taken to be the first item)
do_update_app_config(m, command) ==
    IF command.app \notin Registered THEN m
    ELSE LET existing == Update(get_app_config(m, command.app), command.config)
             m1 == [m EXCEPT !.app_configs = Put(@, command.app, existing)]
             live == command.app = m1.current_app_name /\ m1.current_app # NoApp
             bad == raising(command.config)
             m2 == IF live
                   THEN [m1 EXCEPT !.current_app.config = Update(@, command.config)]
                   ELSE m1
         IN IF live /\ bad # {}
            THEN Call([m1 EXCEPT !.current_app.config =
                          Update(@, [key \in bad |-> command.config[key]])],
                      "update_config_raises", m.current_app.cls)
            ELSE save_state(m2)

\* a settings handler that writes the snapshot before it stores the value
do_settings_saves_first(m, command) ==
    LET m1 == save_state(m)
    IN [m1 EXCEPT !.brightness = set_brightness(command.brightness),
                  !.settings = Put(@, "brightness", command.brightness)]

\* action == "settings"
do_settings(m, command) ==
    save_state([m EXCEPT !.brightness = set_brightness(command.brightness),
                         !.settings = Put(@, "brightness", command.brightness)])

\* a carousel handler that replaces the playlist but keeps the current index
do_carousel_keeps_index(m, command, ok) ==
    LET m1 == [m EXCEPT !.carousel_enabled = command.enabled,
                        !.carousel_apps = command.apps,
                        !.elapsed = 0]
        m2 == IF m1.carousel_enabled /\ m1.carousel_apps # <<>>
              THEN start_app(m1, m1.carousel_apps[1].app,
                             get_app_config(m1, m1.carousel_apps[1].app), ok)
              ELSE m1
    IN save_state(m2)

\* action == "carousel"
do_carousel(m, command, ok) ==
    LET m1 == [m EXCEPT !.carousel_enabled = command.enabled,
                        !.carousel_apps = command.apps,
                        !.carousel_index = 0,
                        !.elapsed = 0]
        m2 == IF m1.carousel_enabled /\ m1.carousel_apps # <<>>
              THEN start_app(m1, m1.carousel_apps[1].app,
                             get_app_config(m1, m1.carousel_apps[1].app), ok)
              ELSE m1
    IN save_state(m2)

\* a quit handler that leaves the continue flag alone
do_quit_ignored(m) == m

\* action == "quit"
do_quit(m) == [m EXCEPT !.running = FALSE]

\* the if/elif chain of process_commands for one command
process_command(m, command, ok) ==
    CASE command.action = "switch" -> do_switch(m, command, ok)
      [] command.action = "stop" -> do_stop(m)
      [] command.action = "config" -> do_config(m, command)
      [] command.action = "update_app_config" -> do_update_app_config(m, command)
      [] command.action = "settings" -> do_settings(m, command)
      [] command.action = "carousel" -> do_carousel(m, command, ok)
      [] command.action = "quit" -> do_quit(m)

-----------------------------------------------------------------------------
(* ApplicationManager.run: the parts of one iteration, and the shutdown *)

\* a rotation that waits until the duration has been exceeded
rotate_strictly_after(m, ok) ==
    IF m.carousel_enabled /\ m.carousel_apps # <<>>
    THEN IF m.elapsed > m.carousel_apps[m.carousel_index + 1].duration
         THEN LET idx == (m.carousel_index + 1) % Len(m.carousel_apps)
                  m1 == [m EXCEPT !.carousel_index = idx]
                  next_app == m1.carousel_apps[idx + 1].app
                  m2 == start_app(m1, next_app, get_app_config(m1, next_app), ok)
              IN [m2 EXCEPT !.elapsed = 0]
         ELSE m
    ELSE m

\* the carousel rotation of run(); ok: setup() of the next application does not raise
rotate(m, ok) ==
    IF m.carousel_enabled /\ m.carousel_apps # <<>>
    THEN IF m.elapsed >= m.carousel_apps[m.carousel_index + 1].duration
         THEN LET idx == (m.carousel_index + 1) % Len(m.carousel_apps)
                  m1 == [m EXCEPT !.carousel_index = idx]
                  next_app == m1.carousel_apps[idx + 1].app
                  m2 == start_app(m1, next_app, get_app_config(m1, next_app), ok)
              IN [m2 EXCEPT !.elapsed = 0]
         ELSE m
    ELSE m

\* a run loop that logs the error of loop() and keeps the instance
crash_keeps_instance(m) == Call(m, "loop_raises", m.current_app.cls)

\* current_app.loop() raised: "Stop the crashed app"
crash(m) == stop_current_app(Call(m, "loop_raises", m.current_app.cls), FALSE)

\* a shutdown that stops the application the way the stop command does
shutdown_as_stop(m) == stop_current_app(m, TRUE)

\* a finally block that saves the state and leaves the instance as it is
shutdown_saves_only(m) ==
    IF m.current_app # NoApp /\ m.current_app_name # None
    THEN save_state([m EXCEPT !.app_configs =
             Put(@, m.current_app_name, m.current_app.config)])
    ELSE m

\* the finally block of run()
shutdown(m) ==
    IF m.current_app # NoApp
    THEN LET m1 == IF m.current_app_name # None
                   THEN save_state([m EXCEPT !.app_configs =
                            Put(@, m.current_app_name, m.current_app.config)])
                   ELSE m
         IN stop_current_app(m1, FALSE)
    ELSE m

-----------------------------------------------------------------------------
(* main.py *)

\* ApplicationManager.load_state, and main's manager.app_configs = saved_configs
\* a load_state that starts the carousel again from its first entry
load_state_resets_index(m) ==
    IF ~m.state_file.exists \/ m.state_file.form # "snapshot" THEN m
    ELSE [m EXCEPT !.carousel_enabled = m.state_file.carousel.enabled,
                   !.carousel_apps = m.state_file.carousel.apps,
                   !.carousel_index = 0,
                   !.elapsed = 0,
                   !.brightness = IF "brightness" \in DOMAIN m.state_file.settings
                                  THEN set_brightness(m.state_file.settings["brightness"])
                                  ELSE @,
                   !.settings = IF "brightness" \in DOMAIN m.state_file.settings
                                THEN m.state_file.settings ELSE @,
                   !.app_configs = m.state_file.app_configs]

\* json.load and every later statement of the try block succeed
loads(file) == file.exists /\ file.form = "snapshot"

\* ApplicationManager.load_state, and main's manager.app_configs = saved_configs.
\* A file of form "truncated" makes json.load raise; in a file of form
\* "bad_settings" the text is a JSON object whose "settings" member cannot be
\* used ("brightness" in settings, or driver.set_brightness, raises), which
\* happens after the carousel members have been assigned
load_state(m) ==
    IF ~m.state_file.exists \/ m.state_file.form = "truncated" THEN m
    ELSE LET m1 == [m EXCEPT !.carousel_enabled = m.state_file.carousel.enabled,
                             !.carousel_apps = m.state_file.carousel.apps,
                             !.carousel_index = m.state_file.carousel.index,
                             !.elapsed = 0]
         IN IF m.state_file.form = "bad_settings" THEN m1
            ELSE [m1 EXCEPT
                     !.brightness = IF "brightness" \in DOMAIN m.state_file.settings
                                    THEN set_brightness(m.state_file.settings["brightness"])
                                    ELSE @,
                     !.settings = IF "brightness" \in DOMAIN m.state_file.settings
                                  THEN m.state_file.settings ELSE @,
                     !.app_configs = m.state_file.app_configs]

\* the last_app load_state returns
loaded_last_app(m) == IF loads(m.state_file) THEN m.state_file.last_app ELSE None

\* list(apps.keys())[0]: the first application discover_apps found
FirstApp == "p1"

\* "Determine which app to start" with the default command line
\* (no --app, no --ignore-state)
app_to_start(m) ==
    IF loaded_last_app(m) # None /\ loaded_last_app(m) \in Registered
    THEN loaded_last_app(m)
    ELSE FirstApp

\* main() up to the point where run() enters its loop
main(file, fs, ok) ==
    LET m1 == load_state(Begin(NewManager(file, fs), "main"))
        name == app_to_start(m1)
        m2 == start_app(m1, name, get_app_config(m1, name), ok)
    IN [m2 EXCEPT !.running = TRUE]

-----------------------------------------------------------------------------
(* api.py: what each POST route answers and which commands it enqueues *)

\* request.get_json() of a request without a body, or with an empty object
NoData == EmptyMap

\* jsonify(...) with its status code, and the queue_command calls made
Reply(status, commands) == [status |-> status, commands |-> commands]

\* POST /api/switch
api_switch_app(data) ==
    IF data = NoData \/ "app" \notin DOMAIN data THEN Reply(400, <<>>)
    ELSE Reply(200, << [action |-> "switch", app |-> data.app,
                        config |-> IF "config" \in DOMAIN data THEN data.config
                                   ELSE EmptyMap] >>)

\* POST /api/stop
api_stop_app == Reply(200, << [action |-> "stop"] >>)

\* POST /api/config; items: the items() of the object in the body, in order
api_update_config(items) ==
    IF items = <<>> THEN Reply(400, <<>>)
    ELSE Reply(200, [i \in 1..Len(items) |->
                        [action |-> "config", key |-> items[i][1], value |-> items[i][2]]])

\* POST /api/apps/<app_name>/config
api_update_app_config(app_name, data) ==
    IF app_name \notin Registered THEN Reply(404, <<>>)
    ELSE IF data = NoData THEN Reply(400, <<>>)
    ELSE Reply(200, << [action |-> "update_app_config", app |-> app_name,
                        config |-> data] >>)

\* POST /api/settings
api_update_settings(data) ==
    IF data = NoData THEN Reply(400, <<>>)
    ELSE IF "brightness" \in DOMAIN data
         THEN IF data.brightness < 0 \/ data.brightness > 100
              THEN Reply(400, <<>>)
              ELSE Reply(200, << [action |-> "settings", brightness |-> data.brightness] >>)
         ELSE Reply(200, <<>>)

\* "Validate each app in the list": the status of the first entry refused, or 200
RECURSIVE validate_apps(_)
validate_apps(apps) ==
    IF apps = <<>> THEN 200
    ELSE LET app_config == Head(apps)
         IN IF "app" \notin DOMAIN app_config THEN 400
            ELSE IF app_config.app \notin Registered THEN 404
            ELSE IF "duration" \notin DOMAIN app_config THEN 400
            ELSE IF app_config.duration <= 0 THEN 400
            ELSE validate_apps(Tail(apps))

\* POST /api/carousel, and ApplicationManager.update_carousel_config
api_update_carousel(data) ==
    IF data = NoData THEN Reply(400, <<>>)
    ELSE LET enabled == IF "enabled" \in DOMAIN data THEN data.enabled ELSE FALSE
             apps == IF "apps" \in DOMAIN data THEN data.apps ELSE <<>>
         IN IF enabled /\ apps = <<>> THEN Reply(400, <<>>)
            ELSE IF validate_apps(apps) # 200 THEN Reply(validate_apps(apps), <<>>)
            ELSE Reply(200, << [action |-> "carousel", enabled |-> enabled,
                                apps |-> apps] >>)

\* the route of a request
api(request) ==
    CASE request.route = "switch" -> api_switch_app(request.data)
      [] request.route = "stop" -> api_stop_app
      [] request.route = "config" -> api_update_config(request.items)
      [] request.route = "app_config" -> api_update_app_config(request.app_name, request.data)
      [] request.route = "settings" -> api_update_settings(request.data)
      [] request.route = "carousel" -> api_update_carousel(request.data)

\* the GET routes that read the manager once: /api/apps, /api/apps/<name>/config,
\* /api/settings, /api/carousel and /api/health.  The answer is built from the
\* fields of the manager m (and of its driver) as they are at that moment
api_get(m, request) ==
    CASE request.route = "apps" ->
           [status |-> 200, request |-> request,
            body |-> [apps |-> Registered, current |-> m.current_app_name]]
      [] request.route = "app_config" ->
           IF request.app_name \notin Registered
           THEN [status |-> 404, request |-> request, body |-> [error |-> "App not found"]]
           ELSE [status |-> 200, request |-> request,
                 body |-> [app |-> request.app_name,
                           config |-> get_app_config(m, request.app_name)]]
      [] request.route = "settings" ->
           [status |-> 200, request |-> request, body |-> [brightness |-> m.brightness]]
      [] request.route = "carousel" ->
           [status |-> 200, request |-> request,
            body |-> [enabled |-> m.carousel_enabled, apps |-> m.carousel_apps,
                      current_index |-> m.carousel_index]]
      [] request.route = "health" ->
           [status |-> 200, request |-> request,
            body |-> [status |-> "ok", manager_running |-> m.running,
                      current_app |-> m.current_app_name]]

\* the GET requests the clients send to those routes
GetRequests ==
    { [route |-> "apps"],
      [route |-> "app_config", app_name |-> "p2"],
      [route |-> "app_config", app_name |-> Unknown],
      [route |-> "settings"],
      [route |-> "carousel"],
      [route |-> "health"] }

\* GET /api/current
CurrentRequest == [route |-> "current"]

\* the answer of GET /api/current for the name and the configuration it read
current_reply(name, config) ==
    [status |-> 200, request |-> CurrentRequest, body |-> [app |-> name, config |-> config]]

\* a POST /api/config whose body has two keys
UnitRequest == [route |-> "config", items |-> << <<"color", 2>>, <<"speed", 3>> >>]

\* the commands another producer sends meanwhile
UnitCommands ==
    { [action |-> "switch", app |-> "p1", config |-> EmptyMap],
      [action |-> "switch", app |-> "p2", config |-> [k \in {"color"} |-> 1]] }

\* the requests the clients send
Requests ==
    { [route |-> "switch", data |-> [app |-> "p1"]],
      [route |-> "switch", data |-> [app |-> "p2", config |-> [k \in {"color"} |-> 1]]],
      [route |-> "switch", data |-> [app |-> Unknown]],
      [route |-> "switch", data |-> NoData],
      [route |-> "stop"],
      [route |-> "config", items |-> << <<"color", 2>> >>],
      [route |-> "config", items |-> <<>>],
      [route |-> "app_config", app_name |-> "p1", data |-> [k \in {"speed"} |-> 1]],
      [route |-> "app_config", app_name |-> Unknown, data |-> [k \in {"speed"} |-> 1]],
      [route |-> "app_config", app_name |-> "p1", data |-> NoData],
      [route |-> "settings", data |-> [brightness |-> 50]],
      [route |-> "settings", data |-> [brightness |-> 150]],
      [route |-> "settings", data |-> [brightness |-> 0 - 5]],
      [route |-> "carousel", data |-> [enabled |-> TRUE, apps |-> Playlist]],
      [route |-> "carousel", data |-> [enabled |-> FALSE, apps |-> <<>>]],
      [route |-> "carousel", data |-> [enabled |-> TRUE, apps |-> <<>>]],
      [route |-> "carousel",
       data |-> [enabled |-> TRUE, apps |-> <<[app |-> Unknown, duration |-> 1]>>]],
      [route |-> "carousel",
       data |-> [enabled |-> TRUE, apps |-> <<[app |-> "p1", duration |-> 0]>>]] }

-----------------------------------------------------------------------------
(* Actions *)

InLoop == pc \in {"drain", "carousel", "advance"}

\* queue.Queue.put: the command joins the end of the queue; seq is its number
\* in the order of enqueueing (history, read by no handler)
Stamp(command, n) == command @@ [seq |-> n]

\* a queue that hands out the newest command first
get_nowait_lifo(q) == [command |-> q[Len(q)], rest |-> SubSeq(q, 1, Len(q) - 1)]

\* queue.Queue.get_nowait on a non-empty queue: the command taken, and what is left
get_nowait(q) == [command |-> Head(q), rest |-> Tail(q)]

Front(q) == get_nowait(q).command

Rest(q) == get_nowait(q).rest

\* the process has not been started and there is no state file
Init ==
    /\ pc = "boot"
    /\ running = FALSE
    /\ current_app = NoApp
    /\ current_app_name = None
    /\ app_configs = EmptyMap
    /\ settings = EmptyMap
    /\ carousel_enabled = FALSE
    /\ carousel_apps = <<>>
    /\ carousel_index = 0
    /\ elapsed = 0
    /\ state_file = NoFile
    /\ nlive = 0
    /\ log = <<>>
    /\ command_queue = <<>>
    /\ sent = 0
    /\ taken = 0
    /\ fifo = 0
    /\ after = ""
    /\ response = NoResponse
    /\ now = 0
    /\ brightness = DefaultBrightness
    /\ disk = "ok"
    /\ wrote = ""
    /\ surface = NewSurface
    /\ seen = 0

\* an API thread calls queue_command.  The queue is read only by the drain, so
\* a command enqueued during the carousel step or during loop() is the same to
\* the manager as one enqueued when the next drain begins: producers act at
\* the drain
Enqueue ==
    /\ pc = "drain"
    /\ sent < MaxCmds
    /\ \E command \in Commands :
          command_queue' = Append(command_queue, Stamp(command, sent + 1))
    /\ sent' = sent + 1
    /\ UNCHANGED <<pc, running, current_app, current_app_name, app_configs, settings,
                   carousel_enabled, carousel_apps, carousel_index, elapsed,
                   state_file, nlive, log, taken, fifo, after, response, now,
                   brightness, disk, wrote, surface, seen>>

\* time passes; it is observed only while the carousel can rotate
Tick ==
    /\ InLoop
    /\ carousel_enabled /\ carousel_apps # <<>>
    /\ elapsed < MaxElapsed
    /\ elapsed' = elapsed + 1
    /\ UNCHANGED <<pc, running, current_app, current_app_name, app_configs, settings,
                   carousel_enabled, carousel_apps, carousel_index,
                   command_queue, state_file, nlive, log, sent, taken, fifo, after,
                   response, now, brightness, disk, wrote, surface, seen>>

\* main() starts the process (first start, or a restart after the process ended)
Main ==
    /\ pc \in {"boot", "done"}
    /\ \E ok \in BOOLEAN : Commit(main(state_file, disk, ok))
    /\ command_queue' = <<>>
    /\ pc' = "drain"
    /\ fifo' = 0
    /\ after' = IF after = "stop" THEN "stop_restart"
                ELSE IF after = "exit_active" THEN "resumed"
                ELSE ""
    /\ UNCHANGED <<sent, taken, response, now>>

\* process_commands takes the next command off the queue and handles it
Dispatching(action) ==
    /\ pc = "drain"
    /\ command_queue # <<>>
    /\ Front(command_queue).action = action
    /\ command_queue' = Rest(command_queue)
    /\ taken' = Front(command_queue).seq
    /\ UNCHANGED <<pc, sent, response>>

Switch ==
    /\ Dispatching("switch")
    /\ \E ok \in BOOLEAN :
        LET command == Front(command_queue)
            success == started(command.app, ok)
        IN /\ Commit(do_switch(Begin(Self, "switch"), command, ok))
           /\ fifo' = IF success /\ command.app = "p1" THEN 1
                      ELSE IF success /\ command.app = "p2" /\ fifo = 2 THEN 3
                      ELSE 0
           /\ after' = IF command.app \notin Registered /\ after \in {"stop", "crash"}
                       THEN after
                       ELSE IF success /\ after = "crash" THEN "crash_switch"
                       ELSE ""
    /\ UNCHANGED now

Stop ==
    /\ Dispatching("stop")
    /\ Commit(do_stop(Begin(Self, "stop")))
    /\ fifo' = 0
    /\ after' = "stop"
    /\ UNCHANGED now

SetConfig ==
    /\ Dispatching("config")
    /\ Commit(do_config(Begin(Self, "config"), Front(command_queue)))
    /\ fifo' = IF fifo = 1 THEN 2 ELSE 0
    /\ after' = IF after \in {"stop", "crash"} THEN after ELSE ""
    /\ UNCHANGED now

SetProgramConfig ==
    /\ Dispatching("update_app_config")
    /\ Commit(do_update_app_config(Begin(Self, "update_app_config"), Front(command_queue)))
    /\ fifo' = 0
    /\ after' = IF after \in {"stop", "crash"} THEN after ELSE ""
    /\ UNCHANGED now

SetSettings ==
    /\ Dispatching("settings")
    /\ Commit(do_settings(Begin(Self, "settings"), Front(command_queue)))
    /\ fifo' = 0
    /\ after' = IF after \in {"stop", "crash"} THEN after ELSE ""
    /\ UNCHANGED now

SetCarousel ==
    /\ Dispatching("carousel")
    /\ \E ok \in BOOLEAN :
          Commit(do_carousel(Begin(Self, "carousel"), Front(command_queue), ok))
    /\ fifo' = 0
    /\ after' = ""
    /\ now' = 0

\* a quit that ends the loop at once, with the rest of the queue undispatched
QuitBreaks ==
    /\ pc = "drain"
    /\ command_queue # <<>>
    /\ Front(command_queue).action = "quit"
    /\ command_queue' = Rest(command_queue)
    /\ taken' = Front(command_queue).seq
    /\ Commit(do_quit(Begin(Self, "quit")))
    /\ pc' = "final"
    /\ after' = IF after \in {"stop", "crash"} THEN after ELSE ""
    /\ UNCHANGED <<sent, response, fifo, now>>

\* process_commands dispatches a quit command
Quit ==
    /\ Dispatching("quit")
    /\ Commit(do_quit(Begin(Self, "quit")))
    /\ UNCHANGED fifo
    /\ after' = IF after \in {"stop", "crash"} THEN after ELSE ""
    /\ UNCHANGED now

\* the queue is empty: process_commands returns
Drained ==
    /\ pc = "drain"
    /\ command_queue = <<>>
    /\ pc' = "carousel"
    /\ Commit(Begin(Self, "drained"))
    /\ UNCHANGED <<command_queue, sent, taken, fifo, response, now>>
    /\ after' = IF after \in {"stop", "crash"} THEN after ELSE ""

\* "Handle carousel rotation"
Rotate ==
    /\ pc = "carousel"
    /\ \E ok \in BOOLEAN :
        LET m == rotate(Begin(Self, "rotate"), ok)
        IN /\ Commit(m)
           /\ fifo' = IF m.log = <<"rotate">> THEN fifo ELSE 0
           /\ after' = IF m.log = <<"rotate">> /\ after \in {"stop", "crash"}
                       THEN after ELSE ""
    /\ pc' = "advance"
    /\ UNCHANGED <<command_queue, sent, taken, response, now>>

\* "Run current app if one is active": loop() returns, or there is no app
Advance ==
    /\ pc = "advance"
    /\ Commit(Begin(Self, "loop"))
    /\ pc' = IF running THEN "drain" ELSE "final"
    /\ UNCHANGED <<command_queue, sent, taken, fifo, response, now>>
    /\ after' = IF after \in {"stop", "crash"} THEN after ELSE ""

\* loop() raises
Crash ==
    /\ pc = "advance"
    /\ current_app # NoApp
    /\ Commit(crash(Begin(Self, "loop")))
    /\ pc' = IF running THEN "drain" ELSE "final"
    /\ fifo' = 0
    /\ after' = "crash"
    /\ UNCHANGED <<command_queue, sent, taken, response, now>>

\* KeyboardInterrupt reaches run() while the loop is running: the except
\* clause logs it and the finally block runs, after which the process ends
Interrupt ==
    /\ InLoop
    /\ Commit(shutdown(Begin(Self, "interrupt")))
    /\ pc' = "done"
    /\ fifo' = 0
    /\ after' = IF current_app # NoApp THEN "exit_active"
                ELSE IF after \in {"stop", "crash"} THEN after
                ELSE ""
    /\ UNCHANGED <<command_queue, sent, taken, response, now>>

\* the loop has ended (running is False): the finally block of run() runs,
\* after which the process ends
Shutdown ==
    /\ pc = "final"
    /\ Commit(shutdown(Begin(Self, "shutdown")))
    /\ pc' = "done"
    /\ fifo' = 0
    /\ after' = IF current_app # NoApp THEN "exit_active"
                ELSE IF after \in {"stop", "crash"} THEN after
                ELSE ""
    /\ UNCHANGED <<command_queue, sent, taken, response, now>>

Next ==
    \/ Enqueue
    \/ Tick
    \/ Main
    \/ Switch
    \/ Stop
    \/ SetConfig
    \/ SetProgramConfig
    \/ SetSettings
    \/ SetCarousel
    \/ Quit
    \/ Drained
    \/ Rotate
    \/ Advance
    \/ Crash
    \/ Interrupt
    \/ Shutdown

Spec == Init /\ [][Next]_vars

\* a caller of queue_command other than api.py enqueues a command
EnqueueDirect ==
    /\ pc = "drain"
    /\ sent < MaxDirect
    /\ \E command \in DirectCommands :
          command_queue' = Append(command_queue, Stamp(command, sent + 1))
    /\ sent' = sent + 1
    /\ UNCHANGED <<pc, running, current_app, current_app_name, app_configs, settings,
                   carousel_enabled, carousel_apps, carousel_index, elapsed,
                   state_file, nlive, log, taken, fifo, after, response, now,
                   brightness, disk, wrote, surface, seen>>

\* the manager driven through queue_command directly
DirectNext ==
    \/ EnqueueDirect
    \/ Tick
    \/ Main
    \/ Switch
    \/ Stop
    \/ SetConfig
    \/ SetProgramConfig
    \/ SetSettings
    \/ SetCarousel
    \/ Quit
    \/ Drained
    \/ Rotate
    \/ Advance
    \/ Crash
    \/ Interrupt
    \/ Shutdown

DirectSpec == Init /\ [][DirectNext]_vars

\* an API thread enqueues a carousel command
EnqueueTimed ==
    /\ pc = "drain"
    /\ sent < MaxCmds
    /\ \E command \in TimedCommands :
          command_queue' = Append(command_queue, Stamp(command, sent + 1))
    /\ sent' = sent + 1
    /\ UNCHANGED <<pc, running, current_app, current_app_name, app_configs, settings,
                   carousel_enabled, carousel_apps, carousel_index, elapsed,
                   state_file, nlive, log, taken, fifo, after, response, now,
                   brightness, disk, wrote, surface, seen>>

\* "Run current app if one is active" on the simulated clock: loop() returns
\* (or the idle sleep ends) one time unit later, so that each iteration of the
\* run loop evaluates the carousel one time unit after the previous one
TimedAdvance ==
    /\ pc = "advance"
    /\ now < MaxTime
    /\ Commit(Begin([Self EXCEPT !.elapsed =
                         IF carousel_enabled /\ carousel_apps # <<>> THEN @ + 1 ELSE @],
                    "loop"))
    /\ now' = now + 1
    /\ pc' = IF running THEN "drain" ELSE "final"
    /\ UNCHANGED <<command_queue, sent, taken, fifo, response>>
    /\ after' = IF after \in {"stop", "crash"} THEN after ELSE ""

\* the run loop with one iteration per time unit and carousel commands only
TimedNext ==
    \/ EnqueueTimed
    \/ Main
    \/ SetCarousel
    \/ Drained
    \/ Rotate
    \/ TimedAdvance

TimedSpec == Init /\ [][TimedNext]_vars

\* an API thread, or the owner of the manager, enqueues a command
EnqueueLive ==
    /\ pc = "drain"
    /\ sent < MaxCmds
    /\ \E command \in LiveCommands :
          command_queue' = Append(command_queue, Stamp(command, sent + 1))
    /\ sent' = sent + 1
    /\ UNCHANGED <<pc, running, current_app, current_app_name, app_configs, settings,
                   carousel_enabled, carousel_apps, carousel_index, elapsed,
                   state_file, nlive, log, taken, fifo, after, response, now,
                   brightness, disk, wrote, surface, seen>>

\* the steps of the main thread inside run(): it is never suspended for ever,
\* and loop() returns or raises
RunLoop ==
    \/ Switch
    \/ Stop
    \/ SetConfig
    \/ SetProgramConfig
    \/ SetSettings
    \/ SetCarousel
    \/ Quit
    \/ Drained
    \/ Rotate
    \/ Advance
    \/ Crash
    \/ Shutdown

LiveNext ==
    \/ EnqueueLive
    \/ Main
    \/ Switch
    \/ Stop
    \/ SetConfig
    \/ Quit
    \/ Drained
    \/ Rotate
    \/ Advance
    \/ Crash
    \/ Interrupt
    \/ Shutdown

\* the run loop keeps running: the main thread takes its next step
LiveSpec == Init /\ [][LiveNext]_vars /\ WF_vars(RunLoop)

\* an API thread, or the owner of the manager, enqueues a command
EnqueueFault ==
    /\ pc = "drain"
    /\ sent < MaxFault
    /\ \E command \in FaultCommands :
          command_queue' = Append(command_queue, Stamp(command, sent + 1))
    /\ sent' = sent + 1
    /\ UNCHANGED <<pc, running, current_app, current_app_name, app_configs, settings,
                   carousel_enabled, carousel_apps, carousel_index, elapsed,
                   state_file, nlive, log, taken, fifo, after, response, now,
                   brightness, disk, wrote, surface, seen>>

\* the file system changes its condition: it becomes read-only, fills up, or
\* becomes writable again
DiskChange ==
    /\ pc = "drain"
    /\ disk' \in {"ok", "readonly", "full"} \ {disk}
    /\ UNCHANGED <<pc, running, current_app, current_app_name, app_configs, settings,
                   carousel_enabled, carousel_apps, carousel_index, elapsed,
                   command_queue, state_file, nlive, log, sent, taken, fifo, after,
                   response, now, brightness, wrote, surface, seen>>

\* state.json is edited, or damaged, while the process is not running
EditFile ==
    /\ pc \in {"boot", "done"}
    /\ state_file # EditedFile
    /\ state_file' = EditedFile
    /\ UNCHANGED <<pc, running, current_app, current_app_name, app_configs, settings,
                   carousel_enabled, carousel_apps, carousel_index, elapsed,
                   command_queue, nlive, log, sent, taken, fifo, after,
                   response, now, brightness, disk, wrote, surface, seen>>

\* the process is killed (SIGKILL, power loss) while the handler of the next
\* command is inside save_state, between open() and the end of json.dump: no
\* except or finally clause runs, and the memory of the process is gone
Kill ==
    /\ pc = "drain"
    /\ command_queue # <<>>
    /\ disk = "ok"
    /\ \E ok \in BOOLEAN :
        LET m == process_command(Begin([Self EXCEPT !.write = "killed"], "killed"),
                                 Front(command_queue), ok)
        IN /\ \E i \in 2..Len(m.log) : m.log[i][1] = "killed"
           /\ Commit([NewManager(m.state_file, disk) EXCEPT !.log = <<"killed">>])
    /\ command_queue' = <<>>
    /\ taken' = Front(command_queue).seq
    /\ pc' = "done"
    /\ fifo' = 0
    /\ after' = ""
    /\ UNCHANGED <<sent, response, now>>

\* the manager with a file system that can fail, an update_config that can
\* raise, and a process that can be killed
FaultNext ==
    \/ EnqueueFault
    \/ DiskChange
    \/ EditFile
    \/ Kill
    \/ Main
    \/ Switch
    \/ Stop
    \/ SetConfig
    \/ SetProgramConfig
    \/ SetSettings
    \/ SetCarousel
    \/ Drained
    \/ Rotate
    \/ Advance
    \/ Crash
    \/ Interrupt

FaultSpec == Init /\ [][FaultNext]_vars

\* an API thread enqueues a switch or config command
EnqueueMemory ==
    /\ pc = "drain"
    /\ sent < MaxMemory
    /\ \E command \in MemoryCommands :
          command_queue' = Append(command_queue, Stamp(command, sent + 1))
    /\ sent' = sent + 1
    /\ UNCHANGED <<pc, running, current_app, current_app_name, app_configs, settings,
                   carousel_enabled, carousel_apps, carousel_index, elapsed,
                   state_file, nlive, log, taken, fifo, after, response, now,
                   brightness, disk, wrote, surface, seen>>

\* the run loop with switch and config commands only
MemoryNext ==
    \/ EnqueueMemory
    \/ Main
    \/ Switch
    \/ SetConfig
    \/ Drained
    \/ Rotate
    \/ Advance
    \/ Crash

MemorySpec == Init /\ [][MemoryNext]_vars

\* an API thread enqueues a command
EnqueueRead ==
    /\ pc = "drain"
    /\ sent < MaxRead
    /\ \E command \in ReadCommands :
          command_queue' = Append(command_queue, Stamp(command, sent + 1))
    /\ sent' = sent + 1
    /\ UNCHANGED <<pc, running, current_app, current_app_name, app_configs, settings,
                   carousel_enabled, carousel_apps, carousel_index, elapsed,
                   state_file, nlive, log, taken, fifo, after, response, now,
                   brightness, disk, wrote, surface, seen>>

\* a handler of GET /api/current is between two of its reads of the manager
Pending == response.status = 0 /\ response # NoResponse

\* an API thread serves a GET request of a route that reads the manager once
Get ==
    /\ InLoop
    /\ ~Pending
    /\ \E request \in GetRequests : response' = api_get(Self, request)
    /\ UNCHANGED <<pc, running, current_app, current_app_name, app_configs, settings,
                   carousel_enabled, carousel_apps, carousel_index, elapsed,
                   command_queue, state_file, nlive, log, sent, taken, fifo, after,
                   now, brightness, disk, wrote, surface, seen>>

\* get_current begins: current = manager.get_current_app_name(); without a name
\* it answers at once
GetCurrent ==
    /\ InLoop
    /\ ~Pending
    /\ response' = IF current_app_name = None
                   THEN current_reply(None, EmptyMap)
                   ELSE [status |-> 0, request |-> CurrentRequest, at |-> "test",
                         current |-> current_app_name]
    /\ UNCHANGED <<pc, running, current_app, current_app_name, app_configs, settings,
                   carousel_enabled, carousel_apps, carousel_index, elapsed,
                   command_queue, state_file, nlive, log, sent, taken, fifo, after,
                   now, brightness, disk, wrote, surface, seen>>

\* get_current evaluates the condition of `... if manager.current_app else {}`
GetCurrentTest ==
    /\ Pending
    /\ response.at = "test"
    /\ response' = IF current_app = NoApp
                   THEN current_reply(response.current, EmptyMap)
                   ELSE [response EXCEPT !.at = "get_config"]
    /\ UNCHANGED <<pc, running, current_app, current_app_name, app_configs, settings,
                   carousel_enabled, carousel_apps, carousel_index, elapsed,
                   command_queue, state_file, nlive, log, sent, taken, fifo, after,
                   now, brightness, disk, wrote, surface, seen>>

\* get_current evaluates manager.current_app.get_config(): it reads
\* manager.current_app again, and None has no get_config (flask answers 500)
GetCurrentConfig ==
    /\ Pending
    /\ response.at = "get_config"
    /\ response' = IF current_app = NoApp
                   THEN [status |-> 500, request |-> CurrentRequest,
                         body |-> [app |-> response.current, config |-> EmptyMap]]
                   ELSE current_reply(response.current, current_app.config)
    /\ UNCHANGED <<pc, running, current_app, current_app_name, app_configs, settings,
                   carousel_enabled, carousel_apps, carousel_index, elapsed,
                   command_queue, state_file, nlive, log, sent, taken, fifo, after,
                   now, brightness, disk, wrote, surface, seen>>

\* the run loop, and the API threads that serve GET requests beside it
ReadNext ==
    \/ EnqueueRead
    \/ Main
    \/ Switch
    \/ Stop
    \/ SetSettings
    \/ SetCarousel
    \/ Drained
    \/ Rotate
    \/ Advance
    \/ Crash
    \/ Get
    \/ GetCurrent
    \/ GetCurrentTest
    \/ GetCurrentConfig

ReadSpec == Init /\ [][ReadNext]_vars

\* the integers given to set_brightness
Levels == (0 - MaxOver)..(100 + MaxOver)

\* a caller of the driver calls set_brightness(b); log holds the call
SetBrightness ==
    /\ \E b \in Levels :
          /\ brightness' = set_brightness(b)
          /\ log' = << <<"set_brightness", b>> >>
    /\ UNCHANGED <<pc, running, current_app, current_app_name, app_configs, settings,
                   carousel_enabled, carousel_apps, carousel_index, elapsed,
                   command_queue, state_file, nlive, sent, taken, fifo, after,
                   response, now, disk, wrote, surface, seen>>

\* a caller of the driver calls get_brightness(); log holds the call and what
\* it returned
GetBrightness ==
    /\ log' = << <<"get_brightness", get_brightness(brightness)>> >>
    /\ UNCHANGED <<pc, running, current_app, current_app_name, app_configs, settings,
                   carousel_enabled, carousel_apps, carousel_index, elapsed,
                   command_queue, state_file, nlive, sent, taken, fifo, after,
                   response, now, brightness, disk, wrote, surface, seen>>

\* a SimulatedDriver and its callers
DriverNext ==
    \/ SetBrightness
    \/ GetBrightness

DriverSpec == Init /\ [][DriverNext]_vars

\* an API thread calls queue_command at any point of an iteration of run()
EnqueueTick ==
    /\ InLoop
    /\ sent < MaxTick
    /\ \E command \in TickCommands :
          command_queue' = Append(command_queue, Stamp(command, sent + 1))
    /\ sent' = sent + 1
    /\ UNCHANGED <<pc, running, current_app, current_app_name, app_configs, settings,
                   carousel_enabled, carousel_apps, carousel_index, elapsed,
                   state_file, nlive, log, taken, fifo, after, response, now,
                   brightness, disk, wrote, surface, seen>>

\* process_commands that returns after the commands it has handled so far,
\* whatever is left in the queue
DrainedEarly ==
    /\ pc = "drain"
    /\ pc' = "carousel"
    /\ Commit(Begin(Self, "drained"))
    /\ UNCHANGED <<command_queue, sent, taken, fifo, response, now>>
    /\ after' = IF after \in {"stop", "crash"} THEN after ELSE ""

\* process_commands finds the queue empty and returns
TickDrained ==
    /\ pc = "drain"
    /\ command_queue = <<>>
    /\ pc' = "carousel"
    /\ Commit(Begin(Self, "drained"))
    /\ UNCHANGED <<command_queue, sent, taken, fifo, response, now>>
    /\ after' = IF after \in {"stop", "crash"} THEN after ELSE ""

\* "Run current app if one is active": self.current_app.loop() returns, or
\* there is no application and the loop sleeps; the iteration ends, and seen
\* records the commands enqueued before the next one begins
TickAdvance ==
    /\ pc = "advance"
    /\ Commit(LET m == Begin([Self EXCEPT !.seen = sent], "loop")
              IN IF current_app # NoApp THEN Call(m, "loop", current_app.cls) ELSE m)
    /\ pc' = IF running THEN "drain" ELSE "final"
    /\ UNCHANGED <<command_queue, sent, taken, fifo, response, now>>
    /\ after' = IF after \in {"stop", "crash"} THEN after ELSE ""

\* self.current_app.loop() raises; the iteration ends
TickCrash ==
    /\ pc = "advance"
    /\ current_app # NoApp
    /\ Commit(crash(Begin([Self EXCEPT !.seen = sent], "loop")))
    /\ pc' = IF running THEN "drain" ELSE "final"
    /\ fifo' = 0
    /\ after' = "crash"
    /\ UNCHANGED <<command_queue, sent, taken, response, now>>

\* the iterations of run() with producers that enqueue at any point of them
TickNext ==
    \/ EnqueueTick
    \/ Tick
    \/ Main
    \/ Switch
    \/ Stop
    \/ SetConfig
    \/ SetCarousel
    \/ Quit
    \/ TickDrained
    \/ Rotate
    \/ TickAdvance
    \/ TickCrash
    \/ Shutdown

TickSpec == Init /\ [][TickNext]_vars

\* the steps of the main thread inside run(), each of which ends: the handler
\* of a command, the carousel evaluation, loop() returning or raising, the
\* finally block
TickRunLoop ==
    \/ Switch
    \/ Stop
    \/ SetConfig
    \/ SetCarousel
    \/ Quit
    \/ TickDrained
    \/ Rotate
    \/ TickAdvance
    \/ TickCrash
    \/ Shutdown

\* an API thread, or the owner of the manager, calls queue_command at any point
\* of an iteration of run()
EnqueueStarve ==
    /\ InLoop
    /\ sent < MaxStarve
    /\ \E command \in StarveCommands :
          command_queue' = Append(command_queue, Stamp(command, sent + 1))
    /\ sent' = sent + 1
    /\ UNCHANGED <<pc, running, current_app, current_app_name, app_configs, settings,
                   carousel_enabled, carousel_apps, carousel_index, elapsed,
                   state_file, nlive, log, taken, fifo, after, response, now,
                   brightness, disk, wrote, surface, seen>>

StarveNext ==
    \/ EnqueueStarve
    \/ Main
    \/ Switch
    \/ Stop
    \/ Quit
    \/ TickDrained
    \/ Rotate
    \/ TickAdvance
    \/ TickCrash
    \/ Shutdown

\* the iterations of run() with a main thread that is never suspended for ever
StarveSpec == Init /\ [][StarveNext]_vars /\ WF_vars(TickRunLoop)

\* API threads call queue_command again and again, for as long as the process
\* runs; the queue never holds more than MaxFlood commands at once.  The
\* commands are not numbered
EnqueueFlood ==
    /\ InLoop
    /\ Len(command_queue) < MaxFlood
    /\ \E command \in FloodCommands :
          command_queue' = Append(command_queue, Stamp(command, 0))
    /\ UNCHANGED <<pc, running, current_app, current_app_name, app_configs, settings,
                   carousel_enabled, carousel_apps, carousel_index, elapsed,
                   state_file, nlive, log, sent, taken, fifo, after, response, now,
                   brightness, disk, wrote, surface, seen>>

\* the steps of the main thread while such producers are at work
FloodRunLoop ==
    \/ Switch
    \/ SetConfig
    \/ SetSettings
    \/ TickDrained
    \/ Rotate
    \/ TickAdvance
    \/ TickCrash

FloodNext ==
    \/ EnqueueFlood
    \/ Main
    \/ Switch
    \/ SetConfig
    \/ SetSettings
    \/ TickDrained
    \/ Rotate
    \/ TickAdvance
    \/ TickCrash

\* the iterations of run() with producers that never stop and a main thread
\* that is never suspended for ever
FloodSpec == Init /\ [][FloodNext]_vars /\ WF_vars(FloodRunLoop)

\* another API thread enqueues a switch command
EnqueueUnit ==
    /\ InLoop
    /\ sent < MaxUnit
    /\ \E command \in UnitCommands :
          command_queue' = Append(command_queue, Stamp(command, sent + 1))
    /\ sent' = sent + 1
    /\ UNCHANGED <<pc, running, current_app, current_app_name, app_configs, settings,
                   carousel_enabled, carousel_apps, carousel_index, elapsed,
                   state_file, nlive, log, taken, fifo, after, response, now,
                   brightness, disk, wrote, surface, seen>>

\* update_config of api.py begins: the body is not empty, and the loop over
\* data.items() calls queue_command for the first key
ConfigRequest ==
    /\ InLoop
    /\ response = NoResponse
    /\ sent + Len(api(UnitRequest).commands) <= MaxUnit
    /\ command_queue' = Append(command_queue, Stamp(api(UnitRequest).commands[1], sent + 1))
    /\ sent' = sent + 1
    /\ response' = [status |-> 0, request |-> UnitRequest, at |-> 2]
    /\ UNCHANGED <<pc, running, current_app, current_app_name, app_configs, settings,
                   carousel_enabled, carousel_apps, carousel_index, elapsed,
                   state_file, nlive, log, taken, fifo, after, now,
                   brightness, disk, wrote, surface, seen>>

\* the loop over data.items() calls queue_command for the next key, and after
\* the last key the handler answers
ConfigRequestNext ==
    /\ response.status = 0
    /\ response # NoResponse
    /\ LET commands == api(response.request).commands
       IN /\ command_queue' = Append(command_queue,
                                     Stamp(commands[response.at], sent + 1))
          /\ response' = IF response.at = Len(commands)
                         THEN [status |-> api(response.request).status,
                               request |-> response.request]
                         ELSE [response EXCEPT !.at = @ + 1]
    /\ sent' = sent + 1
    /\ UNCHANGED <<pc, running, current_app, current_app_name, app_configs, settings,
                   carousel_enabled, carousel_apps, carousel_index, elapsed,
                   state_file, nlive, log, taken, fifo, after, now,
                   brightness, disk, wrote, surface, seen>>

\* one configuration request with two keys, another producer, and the run loop
UnitNext ==
    \/ EnqueueUnit
    \/ ConfigRequest
    \/ ConfigRequestNext
    \/ Main
    \/ Switch
    \/ SetConfig
    \/ TickDrained
    \/ Rotate
    \/ TickAdvance

UnitSpec == Init /\ [][UnitNext]_vars

\* a program calls driver.create_frame_canvas()
CreateFrameCanvas ==
    /\ Len(surface.heap) < MaxBuffers
    /\ surface' = create_frame_canvas(surface)
    /\ log' = << <<"create_frame_canvas", Len(surface.canvases) + 1>> >>
    /\ UNCHANGED <<pc, running, current_app, current_app_name, app_configs, settings,
                   carousel_enabled, carousel_apps, carousel_index, elapsed,
                   command_queue, state_file, nlive, sent, taken, fifo, after,
                   response, now, brightness, disk, wrote, seen>>

\* a program draws on a canvas it holds: set_pixel (x = 0 is outside the
\* matrix), fill or clear
DrawOnCanvas ==
    /\ \E c \in 1..Len(surface.canvases) :
          \/ /\ \E x \in {0} \cup Pixels, colour \in Colours :
                    surface' = canvas_set_pixel(surface, c, x, colour)
             /\ log' = << <<"set_pixel", c>> >>
          \/ /\ Len(surface.heap) < MaxBuffers
             /\ \E colour \in Colours : surface' = canvas_fill(surface, c, colour)
             /\ log' = << <<"fill", c>> >>
          \/ /\ Len(surface.heap) < MaxBuffers
             /\ surface' = canvas_clear(surface, c)
             /\ log' = << <<"clear", c>> >>
    /\ UNCHANGED <<pc, running, current_app, current_app_name, app_configs, settings,
                   carousel_enabled, carousel_apps, carousel_index, elapsed,
                   command_queue, state_file, nlive, sent, taken, fifo, after,
                   response, now, brightness, disk, wrote, seen>>

\* a program calls driver.update(canvas) with a canvas it holds
UpdateDisplay ==
    /\ Len(surface.heap) + 2 <= MaxBuffers
    /\ \E c \in 1..Len(surface.canvases) :
          /\ surface' = update(surface, c)
          /\ log' = << <<"update", c>> >>
    /\ UNCHANGED <<pc, running, current_app, current_app_name, app_configs, settings,
                   carousel_enabled, carousel_apps, carousel_index, elapsed,
                   command_queue, state_file, nlive, sent, taken, fifo, after,
                   response, now, brightness, disk, wrote, seen>>

\* a SimulatedDriver and a program that draws with double buffering
CanvasNext ==
    \/ CreateFrameCanvas
    \/ DrawOnCanvas
    \/ UpdateDisplay

CanvasSpec == Init /\ [][CanvasNext]_vars

\* a manager that holds some valid snapshot value, with no state.json yet
RoundTripInit ==
    /\ pc = "save"
    /\ running = TRUE
    /\ current_app = NoApp
    /\ current_app_name \in SnapshotNames
    /\ app_configs \in SnapshotConfigs
    /\ settings \in SnapshotSettings
    /\ carousel_enabled \in BOOLEAN
    /\ carousel_apps \in SnapshotPlaylists
    /\ carousel_index \in {i \in 0..1 : i = 0 \/ i < Len(carousel_apps)}
    /\ elapsed = 0
    /\ state_file = NoFile
    /\ nlive = 0
    /\ log = <<>>
    /\ command_queue = <<>>
    /\ sent = 0
    /\ taken = 0
    /\ fifo = 0
    /\ after = ""
    /\ response = NoResponse
    /\ now = 0
    /\ brightness = IF "brightness" \in DOMAIN settings
                    THEN set_brightness(settings["brightness"]) ELSE DefaultBrightness
    /\ disk = "ok"
    /\ wrote = ""
    /\ surface = NewSurface
    /\ seen = 0

\* the manager saves its state
SaveSnapshot ==
    /\ pc = "save"
    /\ Commit(save_state(Begin(Self, "save_state")))
    /\ pc' = "load"
    /\ UNCHANGED <<command_queue, sent, taken, fifo, after, response, now>>

\* a fresh manager loads the file, as main() does before it starts anything
LoadSnapshot ==
    /\ pc = "load"
    /\ Commit(load_state(Begin(NewManager(state_file, disk), "load_state")))
    /\ pc' = "loaded"
    /\ UNCHANGED <<command_queue, sent, taken, fifo, after, response, now>>

RoundTripNext ==
    \/ SaveSnapshot
    \/ LoadSnapshot

\* save_state followed by load_state in a fresh manager, for each snapshot value
RoundTripSpec == RoundTripInit /\ [][RoundTripNext]_vars

\* queue_command for each command of a reply, in order
StampAll(commands, n) == [i \in 1..Len(commands) |-> Stamp(commands[i], n + i)]

\* an API thread serves one POST request while the process is running
Request ==
    /\ InLoop
    /\ \E request \in Requests :
        LET reply == api(request)
        IN /\ sent + Len(reply.commands) <= MaxCmds
           /\ command_queue' = command_queue \o StampAll(reply.commands, sent)
           /\ sent' = sent + Len(reply.commands)
           /\ response' = [status |-> reply.status, request |-> request]
    /\ UNCHANGED <<pc, running, current_app, current_app_name, app_configs, settings,
                   carousel_enabled, carousel_apps, carousel_index, elapsed,
                   state_file, nlive, log, taken, fifo, after, now,
                   brightness, disk, wrote, surface, seen>>

\* the transport layer alone: requests are served while the run loop is busy
ApiNext ==
    \/ Main
    \/ Request

ApiSpec == Init /\ [][ApiNext]_vars

-----------------------------------------------------------------------------
(* Reading the history *)

\* the handler that ran last
Handler == IF log = <<>> THEN "" ELSE Head(log)

\* the calls it made, in order, each <<what, application name>>
Calls == IF log = <<>> THEN <<>> ELSE Tail(log)

\* how many of the first n calls were calls of what
Count(what, n) == Cardinality({i \in 1..n : Calls[i][1] = what})

\* instances set up and not cleaned up just before the i-th call of the handler
LiveBeforeCall(i) ==
    nlive - (Count("setup", Len(Calls)) - Count("cleanup", Len(Calls)))
          + (Count("setup", i - 1) - Count("cleanup", i - 1))

\* among the calls is a constructor or setup() of app that raised
Raised(calls, app) == \E i \in 1..Len(calls) : calls[i] = <<"setup_raises", app>>

\* this step dispatches a switch command
SwitchStep ==
    /\ pc = "drain"
    /\ command_queue # <<>>
    /\ Front(command_queue).action = "switch"
    /\ command_queue' = Rest(command_queue)

\* this step dispatches a config command
ConfigStep ==
    /\ pc = "drain"
    /\ command_queue # <<>>
    /\ Front(command_queue).action = "config"
    /\ command_queue' = Rest(command_queue)

\* this step dispatches a carousel command
CarouselStep ==
    /\ pc = "drain"
    /\ command_queue # <<>>
    /\ Front(command_queue).action = "carousel"
    /\ command_queue' = Rest(command_queue)

\* this step dispatches an update_app_config command
ProgramConfigStep ==
    /\ pc = "drain"
    /\ command_queue # <<>>
    /\ Front(command_queue).action = "update_app_config"
    /\ command_queue' = Rest(command_queue)

\* the stored configuration of app, or the empty mapping
Stored(app) == IF app \in DOMAIN app_configs THEN app_configs[app] ELSE EmptyMap

\* this step is the carousel evaluation of run() with a carousel that can rotate
CarouselEvaluation ==
    /\ pc = "carousel"
    /\ pc' = "advance"
    /\ carousel_enabled /\ carousel_apps # <<>>

\* this step dispatches a quit command
QuitStep ==
    /\ pc = "drain"
    /\ command_queue # <<>>
    /\ Front(command_queue).action = "quit"
    /\ command_queue' = Rest(command_queue)

\* this step dispatches the command at the front of the queue
DispatchStep ==
    /\ pc = "drain"
    /\ pc' = "drain"
    /\ command_queue # <<>>
    /\ command_queue' = Rest(command_queue)

\* the last handler made the call what
Called(what) == \E i \in 1..Len(Calls) : Calls[i][1] = what

\* this step dispatches a mutating command that takes effect: a switch that
\* starts the application, a stop or config with an application active, an
\* update_app_config of a registered application, settings, or carousel; and
\* the handler is not cut short by update_config raising
MutatingStep ==
    /\ DispatchStep
    /\ LET command == Front(command_queue)
       IN \/ command.action = "switch" /\ Called("setup")'
          \/ command.action = "stop" /\ current_app # NoApp
          \/ command.action = "config" /\ current_app # NoApp
                                        /\ ~Called("update_config_raises")'
          \/ command.action = "update_app_config" /\ command.app \in Registered
                                                   /\ ~Called("update_config_raises")'
          \/ command.action \in {"settings", "carousel"}

\* the fields of the manager and of its driver, without the file and the history
Memory(m) ==
    <<m.running, m.current_app, m.current_app_name, m.app_configs, m.settings,
      m.carousel_enabled, m.carousel_apps, m.carousel_index, m.elapsed, m.brightness>>

\* this step dispatches a command whose handler calls save_state, and the
\* write fails
FailedWriteStep ==
    /\ pc = "drain"
    /\ command_queue # <<>>
    /\ taken' = Front(command_queue).seq
    /\ Called("save_state_fails")'

\* this step is main(): the process starts
MainStep ==
    /\ pc \in {"boot", "done"}
    /\ pc' = "drain"

\* this step is a call of loop() that raises
CrashStep ==
    /\ pc = "advance"
    /\ pc' # "advance"
    /\ Handler' = "loop"
    /\ Calls' # <<>>

-----------------------------------------------------------------------------
(* Claims *)

\* C1: at most one application instance is set up and not yet cleaned up, the
\* manager holds exactly that instance, and whenever a handler starts an
\* application every instance set up earlier has had stop() and then
\* cleanup() called before the new setup() begins.
C1_SingleOwner ==
    /\ nlive \in {0, 1}
    /\ (nlive = 1) <=> (current_app # NoApp)
    /\ \A i \in 1..Len(Calls) :
          /\ Calls[i][1] \in {"setup", "setup_raises"} => LiveBeforeCall(i) = 0
          /\ Calls[i][1] = "cleanup" => i > 1 /\ Calls[i - 1] = <<"stop", Calls[i][2]>>

\* a switch command has replaced the running p1 by p2
C1_Witness ==
    /\ Handler = "switch"
    /\ Calls = << <<"stop", "p1">>, <<"cleanup", "p1">>, <<"setup", "p2">>, <<"save_state", "p2">> >>
    /\ current_app.cls = "p2"

\* C2: commands are dispatched in the order they were enqueued (every queued
\* command was enqueued after the last one dispatched, and the queue is in
\* enqueueing order); and once switch p1, config color=2, switch p2 have been
\* dispatched in that order with both starts succeeding, p2 is active and the
\* stored configuration of p1 has color = 2.
C2_FifoDispatch ==
    /\ \A i \in 1..Len(command_queue) :
          /\ command_queue[i].seq > taken
          /\ i < Len(command_queue) => command_queue[i].seq < command_queue[i + 1].seq
    /\ fifo = 3 =>
          /\ current_app.cls = "p2"
          /\ current_app_name = "p2"
          /\ "p1" \in DOMAIN app_configs
          /\ "color" \in DOMAIN app_configs["p1"]
          /\ app_configs["p1"]["color"] = 2

\* the three commands of the example have just been dispatched
C2_Witness == fifo = 3 /\ Handler = "switch" /\ taken = 3

\* C3: when loop() raises, the handler leaves no instance active, leaves the
\* continue flag and the queue alone and the loop goes on to its next
\* iteration; no instance is active until something is started; and a switch
\* to a registered application dispatched after the crash, whose setup()
\* returns, makes that application the active one.
C3_CrashIsolation ==
    /\ [][CrashStep =>
            /\ current_app' = NoApp
            /\ nlive' = 0
            /\ running' = running
            /\ command_queue' = command_queue
            /\ pc' = IF running THEN "drain" ELSE "final"]_vars
    /\ [](after = "crash" => current_app = NoApp)
    /\ [][(after = "crash" /\ SwitchStep /\ Front(command_queue).app \in Registered
             /\ ~Raised(Calls', Front(command_queue).app)) =>
            /\ current_app' = [cls |-> Front(command_queue).app,
                               config |-> Front(command_queue).config]
            /\ current_app_name' = Front(command_queue).app
            /\ nlive' = 1]_vars

\* an application crashed and a later switch command started p2
C3_Witness == after = "crash_switch" /\ current_app.cls = "p2" /\ pc = "drain"

\* C4 (as claimed): after loop() has raised, and until something is started
\* or stopped, there is no active instance and get_current_app_name() is None.
C4_CrashClearsName ==
    after = "crash" => current_app = NoApp /\ current_app_name = None

\* C5 (as claimed): when a stop command was dispatched, nothing was started
\* after it, the process ended and main() has run again from the state file,
\* the file has last_app = null, main() has started nothing and no
\* application is active.
C5_StopThenRestart ==
    (after = "stop_restart" /\ state_file.exists) =>
        /\ state_file.last_app = None
        /\ Calls = <<>>
        /\ current_app = NoApp

\* C6: the shutdown block, run with application p active, leaves a state file
\* with last_app = p and p's configuration as it was in the instance; and the
\* main() that runs next starts p, and if setup() returns p is active with
\* exactly the configuration in the file.
C6_ShutdownThenRestart ==
    /\ [][(pc # "done" /\ pc' = "done" /\ current_app # NoApp) =>
            /\ current_app_name = current_app.cls
            /\ state_file'.exists
            /\ state_file'.last_app = current_app.cls
            /\ current_app.cls \in DOMAIN state_file'.app_configs
            /\ state_file'.app_configs[current_app.cls] = current_app.config
            /\ after' = "exit_active"]_vars
    /\ [][(pc = "done" /\ after = "exit_active") =>
            /\ state_file.last_app = Calls[Len(Calls)][2]
            /\ Calls' \in { << <<"setup", state_file.last_app>> >>,
                            << <<"setup_raises", state_file.last_app>> >> }
            /\ current_app' # NoApp =>
                  current_app' = [cls |-> state_file.last_app,
                                  config |-> state_file.app_configs[state_file.last_app]]]_vars

\* p2 was active with color = 2 when the process ended, and is active with
\* that configuration after the restart
C6_Witness ==
    /\ after = "resumed"
    /\ current_app = [cls |-> "p2", config |-> [k \in {"color"} |-> 2]]
    /\ state_file.last_app = "p2"

\* C7 (as claimed): after a stop command has been dispatched, in whatever
\* state, no application is active, current_app_name is None and a snapshot
\* with last_app = null has been written.
C7_StopClears ==
    Handler = "stop" =>
        /\ current_app = NoApp
        /\ current_app_name = None
        /\ Calls # <<>> /\ Calls[Len(Calls)] = <<"save_state", None>>
        /\ state_file.exists /\ state_file.last_app = None

\* C8 (as claimed): last_app in the state file changes from a name to null
\* only in the step that dispatches a stop command.
C8_OnlyStopClears ==
    [][(state_file.exists /\ state_file.last_app # None /\ state_file'.last_app = None)
          => Handler' = "stop"]_vars

\* C9: when a switch to a registered application is dispatched and its
\* constructor or setup() raises, no application is active afterwards, the
\* application that was running has had stop() and cleanup() called, setup is
\* attempted once, and the state file is not written.
C9_SetupFailure ==
    [][(SwitchStep /\ Front(command_queue).app \in Registered
          /\ Raised(Calls', Front(command_queue).app)) =>
         /\ current_app' = NoApp
         /\ nlive' = 0
         /\ state_file' = state_file
         /\ Calls' = IF current_app # NoApp
                     THEN << <<"stop", current_app.cls>>, <<"cleanup", current_app.cls>>,
                             <<"setup_raises", Front(command_queue).app>> >>
                     ELSE << <<"setup_raises", Front(command_queue).app>> >>]_vars

\* p1 was running and saved, and the switch to p2 failed in setup()
C9_Witness ==
    /\ Handler = "switch"
    /\ Calls = << <<"stop", "p1">>, <<"cleanup", "p1">>, <<"setup_raises", "p2">> >>
    /\ current_app = NoApp
    /\ state_file.exists /\ state_file.last_app = "p1"

\* C10: dispatching a switch command whose name is not registered calls
\* nothing and changes neither the active application, nor the stored
\* configurations, the settings, the carousel state or the state file.
C10_UnknownProgram ==
    [][(SwitchStep /\ Front(command_queue).app \notin Registered) =>
         /\ Calls' = <<>>
         /\ UNCHANGED <<running, current_app, current_app_name, app_configs, settings,
                        carousel_enabled, carousel_apps, carousel_index, elapsed,
                        state_file, nlive>>]_vars

\* a switch to an unknown name was dispatched while p2 was running in carousel mode
C10_Witness ==
    /\ Handler = "switch"
    /\ Calls = <<>>
    /\ current_app.cls = "p2"
    /\ carousel_enabled

\* C11 (as claimed): a POST /api/switch that names an unregistered program is
\* answered with an error status and enqueues no switch command: no switch
\* command for an unregistered name is ever in the queue.
C11_UnknownSwitchRejected ==
    /\ (/\ response # NoResponse
        /\ response.request.route = "switch"
        /\ "app" \in DOMAIN response.request.data
        /\ response.request.data.app \notin Registered) => response.status >= 400
    /\ \A i \in 1..Len(command_queue) :
          command_queue[i].action = "switch" => command_queue[i].app \in Registered

\* C12 (as claimed): the brightness held in the manager's settings, and the
\* brightness in the state file, is between 0 and 100 in every reachable
\* state, whatever brightness the settings commands carried.
C12_BrightnessClamped ==
    /\ "brightness" \in DOMAIN settings => settings["brightness"] \in 0..100
    /\ (state_file.exists /\ "brightness" \in DOMAIN state_file.settings) =>
          state_file.settings["brightness"] \in 0..100

MergeConfigs ==
    { EmptyMap, [k \in {"speed"} |-> 1], [k \in {"color"} |-> 3],
      [k \in {"color", "speed"} |-> IF k = "color" THEN 2 ELSE 1] }

\* C14: in every reachable state, for every registered p and every mapping
\* c, handling update_app_config{p, c} a second time right after the first
\* leaves the stored configurations, the live instance and the state file
\* exactly as the first left them.
C14_MergeIdempotent ==
    \A p \in Registered : \A c \in MergeConfigs :
        LET command == [action |-> "update_app_config", app |-> p, config |-> c]
            once == do_update_app_config(Begin(Self, "update_app_config"), command)
            twice == do_update_app_config(Begin(once, "update_app_config"), command)
        IN /\ twice.app_configs = once.app_configs
           /\ twice.state_file = once.state_file
           /\ twice.current_app = once.current_app

\* update_app_config{p2, color = 3} was the first command dispatched, p1
\* being active, and the same command is the next one in the queue
C14_Witness ==
    /\ Handler = "update_app_config"
    /\ taken = 1
    /\ current_app.cls = "p1"
    /\ app_configs = [a \in {"p2"} |-> [k \in {"color"} |-> 3]]
    /\ state_file.exists /\ state_file.app_configs = app_configs
    /\ command_queue # <<>>
    /\ Front(command_queue).action = "update_app_config"
    /\ Front(command_queue).app = "p2"
    /\ Front(command_queue).config = [k \in {"color"} |-> 3]

C16_CarouselAsSwitch ==
    [][CarouselStep =>
        LET command == Front(command_queue)
            first == command.apps[1].app
        IN /\ carousel_enabled' = command.enabled
           /\ carousel_apps' = command.apps
           /\ carousel_index' = 0
           /\ elapsed' = 0
           /\ Calls' # <<>> /\ Calls'[Len(Calls')][1] = "save_state"
           /\ state_file' = [exists |-> TRUE, form |-> "snapshot", last_app |-> current_app_name',
                             app_configs |-> app_configs', settings |-> settings',
                             carousel |-> [enabled |-> command.enabled,
                                           apps |-> command.apps, index |-> 0]]
           /\ (command.enabled /\ command.apps # <<>> /\ ~Raised(Calls', first)) =>
                 /\ current_app' = [cls |-> first, config |-> Stored(first)]
                 /\ current_app_name' = first
                 /\ current_app # NoApp =>
                       /\ SubSeq(Calls', 1, 2) = << <<"stop", current_app.cls>>,
                                                    <<"cleanup", current_app.cls>> >>
                       /\ current_app_name # first =>
                             app_configs'[current_app_name] = current_app.config
                 /\ first \in DOMAIN app_configs'
                 /\ app_configs'[first] = current_app'.config]_vars

\* C18 (as claimed): when the carousel evaluation of run() has just switched
\* to the next application of the playlist, the state file records that
\* application as last_app, the new carousel index and the stored
\* configurations, as after a switch command to the same application.
C18_RotationPersists ==
    (Handler = "rotate" /\ Calls # <<>> /\ current_app # NoApp) =>
        /\ state_file.exists
        /\ state_file.last_app = current_app_name
        /\ state_file.carousel.index = carousel_index
        /\ state_file.app_configs = app_configs
        /\ current_app_name \in DOMAIN app_configs
        /\ app_configs[current_app_name] = current_app.config

\* C19: in every reachable state, if the carousel is enabled and the playlist
\* is not empty, carousel_index is an index into the playlist (0-based), in
\* memory and in the state file a restart loads; and a carousel evaluation
\* made while the playlist is empty starts and stops nothing, whatever the
\* value of carousel_enabled.
C19_CarouselIndexValid ==
    /\ (carousel_enabled /\ carousel_apps # <<>>) =>
          carousel_index \in 0..(Len(carousel_apps) - 1)
    /\ (state_file.carousel.enabled /\ state_file.carousel.apps # <<>>) =>
          state_file.carousel.index \in 0..(Len(state_file.carousel.apps) - 1)
    /\ (Handler = "rotate" /\ carousel_apps = <<>>) => Calls = <<>>

\* the process was restarted and loaded an enabled carousel whose index
\* points at the second entry of the playlist
C19_Witness ==
    /\ after = "resumed"
    /\ carousel_enabled
    /\ carousel_apps = Playlist
    /\ carousel_index = 1
    /\ state_file.carousel.index = 1

\* the entry of TimedPlaylist on show t time units after it was enabled
TimedIndex(t) == IF t % 5 < 2 THEN 0 ELSE 1

\* C17: with the playlist [(p1, 2), (p2, 3)] enabled at time 0, no later
\* command dispatched and one run-loop iteration per time unit, after the
\* carousel evaluation made at time t the current entry is p1 for t in [0, 2),
\* p2 for t in [2, 5), p1 again from t = 5 and so on with period 5, the time
\* since the last transition is t minus the start of that interval, and the
\* active application is the one of that entry; and in general a carousel
\* evaluation rotates exactly when the time elapsed since the last transition
\* is at least the duration of the current entry, and then moves the index on
\* by one modulo the length of the playlist, starts the application of the new
\* entry and restarts the elapsed time from that evaluation.
C17_CarouselTiming ==
    /\ [](( /\ pc = "advance"
            /\ carousel_enabled
            /\ carousel_apps = TimedPlaylist ) =>
              /\ carousel_index = TimedIndex(now)
              /\ elapsed = IF now % 5 < 2 THEN now % 5 ELSE (now % 5) - 2
              /\ current_app_name \in {TimedPlaylist[carousel_index + 1].app, None}
              /\ current_app # NoApp =>
                    current_app.cls = TimedPlaylist[carousel_index + 1].app)
    /\ [][CarouselEvaluation =>
            IF elapsed >= carousel_apps[carousel_index + 1].duration
            THEN LET idx == (carousel_index + 1) % Len(carousel_apps)
                     next_app == carousel_apps[idx + 1].app
                 IN /\ carousel_index' = idx
                    /\ elapsed' = 0
                    /\ Calls'[Len(Calls')] \in { <<"setup", next_app>>,
                                                  <<"setup_raises", next_app>> }
                    /\ ~Raised(Calls', next_app) =>
                          /\ current_app' = [cls |-> next_app, config |-> Stored(next_app)']
                          /\ current_app_name' = next_app
            ELSE /\ Calls' = <<>>
                 /\ UNCHANGED <<current_app, current_app_name, app_configs,
                                carousel_index, elapsed, nlive>>]_vars

\* five time units after [(p1, 2), (p2, 3)] was enabled, the carousel has just
\* come back to p1, having replaced p2
C17_Witness ==
    /\ pc = "advance"
    /\ carousel_enabled /\ carousel_apps = TimedPlaylist
    /\ now = 5
    /\ carousel_index = 0
    /\ Calls = << <<"stop", "p2">>, <<"cleanup", "p2">>, <<"setup", "p1">> >>
    /\ current_app.cls = "p1"

-----------------------------------------------------------------------------
(* Persistence *)

\* C21: at every instant, also when the process is killed or the write fails
\* in the middle of save_state, state.json is absent or holds a complete
\* snapshot: save_state never leaves it empty, truncated or partially written.
C21_AtomicPersistence == state_file.exists => state_file.form # "truncated"

\* C22: immediately after the dispatch of a mutating command that takes
\* effect, when the write succeeds, state.json holds exactly the manager's
\* current program name, per-program configs, settings and carousel
\* enabled/playlist/index as they are in memory.
C22_DiskMirrorsMemory ==
    [][(MutatingStep /\ disk = "ok") =>
          /\ Called("save_state")'
          /\ state_file' = Snapshot(Self)']_vars

\* a settings command has been dispatched with a writable disk, after an
\* update_app_config: the file holds the brightness and the stored config
C22_Witness ==
    /\ Handler = "settings"
    /\ Called("save_state")
    /\ taken = 2
    /\ settings = [brightness |-> 50]
    /\ "p1" \in DOMAIN app_configs
    /\ state_file = Snapshot(Self)

\* C23: when the write of a snapshot fails, the manager's memory is what the
\* same handler would have left had the write succeeded, the drain goes on with
\* the rest of the queue and the run loop keeps running; and the next write
\* that succeeds after a failed one leaves in state.json the whole of the
\* memory as it is then, the changes whose write failed included.
C23_WriteFailure ==
    /\ [][FailedWriteStep =>
            /\ \E ok \in BOOLEAN :
                  Memory(Self)' =
                      Memory(process_command([Self EXCEPT !.write = "ok"],
                                             Front(command_queue), ok))
            /\ pc' = "drain"
            /\ command_queue' = Rest(command_queue)
            /\ running' = running]_vars
    /\ [][(wrote = "failed" /\ wrote' = "recovered") =>
            state_file' = Snapshot(Self)']_vars

\* the write of a settings command failed, and the config command after it
\* was written: the file holds the brightness together with the new config
C23_Witness ==
    /\ wrote = "recovered"
    /\ Handler = "config"
    /\ taken = 2
    /\ current_app # NoApp
    /\ current_app.config = [k \in {"color"} |-> 2]
    /\ state_file = Snapshot(Self)
    /\ state_file.settings = [brightness |-> 50]

\* C24: when state.json is missing, cannot be parsed or cannot be read
\* otherwise, load_state returns the empty snapshot (no last program, no
\* per-program configs) and the manager's carousel state and settings stay at
\* their defaults: a load that fails applies no part of the file.
C24_LoadDegradesToEmpty ==
    [][(MainStep /\ ~loads(state_file)) =>
          /\ app_configs' = EmptyMap
          /\ settings' = EmptyMap
          /\ brightness' = DefaultBrightness
          /\ carousel_enabled' = FALSE
          /\ carousel_apps' = <<>>
          /\ carousel_index' = 0]_vars

\* C25: for every valid snapshot value, saving it and then loading the file
\* into a fresh manager gives back the same last program, per-program configs,
\* settings and carousel enabled/playlist/index.
C25_RoundTrip ==
    [][(pc = "load" /\ pc' = "loaded") =>
          /\ loaded_last_app(NewManager(state_file, disk)) = current_app_name
          /\ app_configs' = app_configs
          /\ settings' = settings
          /\ brightness' = brightness
          /\ carousel_enabled' = carousel_enabled
          /\ carousel_apps' = carousel_apps
          /\ carousel_index' = carousel_index]_vars

\* a snapshot with no last program, brightness 0, two stored configs and the
\* carousel at its second entry has been saved and loaded
C25_Witness ==
    /\ pc = "loaded"
    /\ state_file.last_app = None
    /\ settings = [brightness |-> 0]
    /\ brightness = 0
    /\ DOMAIN app_configs = {"p1", "p2"}
    /\ carousel_enabled
    /\ carousel_apps = Playlist
    /\ carousel_index = 1

-----------------------------------------------------------------------------
(* Per-program configuration *)

\* C26: when p1 has been running with a configuration c, p2 has been switched
\* to, and a switch to p1 that supplies no configuration is then dispatched,
\* p1 runs again with c and the stored configuration of p1 is still c.
C26_ConfigMemory ==
    [][(/\ SwitchStep
        /\ fifo = 3
        /\ Front(command_queue).app = "p1"
        /\ Front(command_queue).config = EmptyMap
        /\ Called("setup")') =>
          /\ current_app'.cls = "p1"
          /\ current_app'.config = Stored("p1")
          /\ Stored("p1")' = Stored("p1")]_vars

\* C27: the handling of a crash of the active application p writes no
\* snapshot, leaves the stored configuration of p as it was and leaves p as the
\* last program; every snapshot written after the crash, before a stop or an
\* attempt to start an application, records last_app = p.
C27_CrashLeavesState ==
    /\ [][CrashStep =>
            /\ state_file' = state_file
            /\ ~Called("save_state")' /\ ~Called("save_state_fails")'
            /\ current_app_name' = current_app_name
            /\ Stored(current_app_name)' = Stored(current_app_name)]_vars
    /\ [][(after = "crash" /\ after' = "crash") =>
            /\ current_app_name' = current_app_name
            /\ Called("save_state")' => state_file'.last_app = current_app_name]_vars

\* C28: when the dispatch of a command raises part-way (update_config raises
\* while a config or update_app_config command is applied), the manager's
\* memory and state.json are what they were before the command, and the drain
\* goes on with the commands that remain.
C28_FailedTransition ==
    [][(/\ pc = "drain"
        /\ command_queue # <<>>
        /\ taken' = Front(command_queue).seq
        /\ Called("update_config_raises")') =>
          /\ Memory(Self)' = Memory(Self)
          /\ state_file' = state_file
          /\ command_queue' = Rest(command_queue)
          /\ pc' = "drain"]_vars

-----------------------------------------------------------------------------
(* Transport layer *)

\* C29: the request handlers only enqueue commands; none of them reads the
\* manager's active program, per-program configs, settings or carousel state,
\* so the answer to a request is the same whatever the run loop has done with
\* them: it is the answer the request gets from a manager that has no active
\* program, no stored config, the default brightness and the carousel off.
C29_HandlersOnlyEnqueue ==
    response.status # 0 =>
        /\ response.status # 500
        /\ response.request.route = "current" =>
              response = current_reply(None, EmptyMap)
        /\ response.request.route # "current" =>
              response = api_get([NewManager(NoFile, "ok") EXCEPT !.running = running],
                                 response.request)

-----------------------------------------------------------------------------
(* Display driver *)

\* C30: the brightness of a SimulatedDriver is always within 0..100: it is 100
\* before any call, after set_brightness(b) it is min(100, max(0, b)), and
\* get_brightness returns the stored value.
C30_BrightnessRange ==
    /\ brightness \in 0..100
    /\ log = <<>> => brightness = 100
    /\ (log # <<>> /\ log[1][1] = "set_brightness") =>
          LET b == log[1][2]
              floored == IF b >= 0 THEN b ELSE 0
          IN brightness = IF floored <= 100 THEN floored ELSE 100
    /\ (log # <<>> /\ log[1][1] = "get_brightness") => log[1][2] = brightness

\* set_brightness was given more than 100 and get_brightness returned 100, or
\* it was given less than 0 and get_brightness returned 0
C30_Witness ==
    /\ log # <<>>
    /\ \/ log[1] = <<"set_brightness", 100 + MaxOver>> /\ brightness = 100
       \/ log[1] = <<"set_brightness", 0 - MaxOver>> /\ brightness = 0

\* C31: drawing on a frame canvas (one obtained from create_frame_canvas, the
\* one given to update or the one update returned) never changes the contents
\* of the display buffer, nor does create_frame_canvas; update(canvas) makes
\* the display buffer equal to the canvas's contents in that one step, leaves
\* the canvas as it was, and returns a new canvas whose contents are the
\* display buffer as it was just before the call.
C31_DoubleBuffering ==
    [][/\ (log' # <<>> /\ log'[1][1] \in {"create_frame_canvas", "set_pixel", "fill", "clear"}) =>
             get_buffer(surface') = get_buffer(surface)
       /\ (log' # <<>> /\ log'[1][1] = "update") =>
             LET c == log'[1][2]
                 old_canvas == Len(surface'.canvases)
             IN /\ get_buffer(surface') = canvas_get_buffer(surface, c)
                /\ canvas_get_buffer(surface', c) = canvas_get_buffer(surface, c)
                /\ old_canvas = Len(surface.canvases) + 1
                /\ canvas_get_buffer(surface', old_canvas) = get_buffer(surface)]_vars

\* after an update that put a drawing on the display and returned a black
\* canvas, the program has drawn on both canvases and the display still shows
\* the drawing
C31_Witness ==
    /\ log = << <<"set_pixel", 2>> >>
    /\ Len(surface.canvases) = 2
    /\ get_buffer(surface) = [x \in Pixels |-> IF x = 1 THEN 1 ELSE 0]
    /\ canvas_get_buffer(surface, 1) = [x \in Pixels |-> 1]
    /\ canvas_get_buffer(surface, 2) = [x \in Pixels |-> IF x = 2 THEN 1 ELSE 0]

-----------------------------------------------------------------------------
(* Run loop *)

C33_NoStarvation ==
    \A n \in 1..MaxStarve :
        (/\ InLoop
         /\ running
         /\ \E i \in 1..Len(command_queue) : command_queue[i].seq = n) ~> (taken = n)

\* the second command, enqueued behind a quit command that had not been
\* dispatched yet, has been dispatched after the quit
C33_Witness ==
    /\ pc = "drain"
    /\ taken = 2
    /\ ~running
    /\ Handler \in {"switch", "stop"}

\* C34: the drain does not block the iteration: each drain dispatches what is
\* available and ends, so that, also while producers keep enqueuing commands
\* during the drain, every iteration that has begun its drain reaches the
\* advance of the active program.
C34_DrainTerminates == (pc = "drain") ~> (pc = "advance")

\* C35: in every state between two handlers in which a program p is active,
\* the stored configuration of p (get_app_config(p), the empty mapping when
\* there is no entry) equals the configuration of the active instance, and
\* when the last handler wrote a snapshot with p active the snapshot's
\* configuration of p is the instance's; update_config does not raise.
C35_StoredTracksLive ==
    (current_app # NoApp /\ current_app_name # None) =>
        /\ get_app_config(Self, current_app_name) = current_app.config
        /\ (Calls # <<>> /\ Calls[Len(Calls)][1] = "save_state") =>
              /\ state_file.last_app = current_app_name
              /\ current_app.config =
                    IF current_app_name \in DOMAIN state_file.app_configs
                    THEN state_file.app_configs[current_app_name]
                    ELSE EmptyMap

\* the carousel has rotated to p2, whose configuration had been stored by an
\* earlier switch, and the new instance has that configuration
C35_Witness ==
    /\ Handler = "rotate"
    /\ Calls # <<>>
    /\ current_app = [cls |-> "p2", config |-> [k \in {"color"} |-> 1]]
    /\ current_app_name = "p2"
    /\ app_configs["p2"] = current_app.config

\* C36: every instance whose setup() returned has cleanup() called exactly
\* once, before the manager replaces it, holds no instance, or returns from
\* run(): cleanup() is only called on the one instance that is set up and not
\* yet cleaned up, setup() of a new instance only when no such instance is
\* left, no such instance is left when the manager holds none or run() has
\* returned, and a call of loop() that raises is followed by cleanup() of the
\* instance in the same step.
C36_CleanupOnce ==
    /\ nlive >= 0
    /\ current_app = NoApp => nlive = 0
    /\ pc = "done" => (nlive = 0 /\ current_app = NoApp)
    /\ \A i \in 1..Len(Calls) :
          /\ Calls[i][1] = "cleanup" => LiveBeforeCall(i) = 1
          /\ Calls[i][1] \in {"setup", "setup_raises"} => LiveBeforeCall(i) = 0
    /\ \A i \in 1..Len(Calls) :
          Calls[i][1] = "loop_raises" =>
              \E j \in (i + 1)..Len(Calls) : Calls[j] = <<"cleanup", Calls[i][2]>>

\* run() has returned after an interrupt that found p2 active: the state was
\* saved and p2 was stopped and cleaned up
C36_Witness ==
    /\ pc = "done"
    /\ Handler = "interrupt"
    /\ Calls = << <<"save_state", "p2">>, <<"stop", "p2">>, <<"cleanup", "p2">> >>
    /\ nlive = 0

-----------------------------------------------------------------------------
(* Implicit properties *)

\* this step is the last read of a handler of GET /api/current that found a
\* name: the handler answers
CurrentAnswered == Pending /\ response'.status # 0

\* C37: a GET /api/current served while the run loop switches, rotates, stops
\* or handles a crash observes a consistent pair: when it reports a name, the
\* manager holds an instance at the handler's last read, the instance is of
\* the program named and the configuration reported is that instance's; and
\* the handler never fails on an instance that has become None between its
\* check and its use.
C37_ConsistentStatus ==
    [][CurrentAnswered =>
          /\ response'.status = 200
          /\ current_app # NoApp
          /\ response'.body.app = current_app.cls
          /\ response'.body.config = current_app.config]_vars

\* this step dispatches the config command of the second key of UnitRequest
SecondKeyStep ==
    /\ ConfigStep
    /\ Front(command_queue).key = UnitRequest.items[2][1]

\* C38: a POST /api/config with several keys is applied as a unit: when the
\* command of its second key is dispatched, the command dispatched just before
\* it is the command of its first key (no command of another producer stands
\* between them), and the active program, if there is one, is a program the
\* first key was applied to.
C38_ConfigRequestIsUnit ==
    [][SecondKeyStep =>
          /\ taken + 1 = Front(command_queue).seq
          /\ current_app # NoApp =>
                /\ UnitRequest.items[1][1] \in DOMAIN current_app.config
                /\ current_app.config[UnitRequest.items[1][1]] = UnitRequest.items[1][2]]_vars

\* a quit command has been dispatched and run() has not yet left its loop
AfterQuit == InLoop /\ ~running

\* this step dispatches a command although a quit was dispatched before it
DispatchAfterQuit == AfterQuit /\ DispatchStep

\* this step is a carousel rotation although a quit was dispatched before it
RotationAfterQuit ==
    /\ AfterQuit
    /\ CarouselEvaluation
    /\ Handler' = "rotate"
    /\ Calls' # <<>>

\* this step calls loop() of the active program although a quit was dispatched
LoopAfterQuit ==
    /\ AfterQuit
    /\ pc = "advance"
    /\ Handler' = "loop"
    /\ Called("loop")'

\* C39: once a quit command has been dispatched the manager only shuts down:
\* no command behind the quit is dispatched, the carousel does not rotate, and
\* loop() of the active program is not called again.
C39_QuitIsFinal ==
    [][~DispatchAfterQuit /\ ~RotationAfterQuit /\ ~LoopAfterQuit]_vars

\* the carousel is enabled and every entry of its non-empty playlist names a
\* registered application
CarouselPlaying ==
    /\ carousel_enabled
    /\ carousel_apps # <<>>
    /\ \A i \in 1..Len(carousel_apps) : carousel_apps[i].app \in Registered

\* C40: while the carousel is enabled with a non-empty playlist of registered
\* applications and an application is active, the active application is the
\* one of the playlist entry at carousel_index.
C40_ActiveIsPlaylistEntry ==
    (InLoop /\ CarouselPlaying /\ current_app # NoApp)
        => current_app.cls = carousel_apps[carousel_index + 1].app

=============================================================================
